---- MODULE Spec2Model ----
(***************************************************************************)
(* Model of the Copytrader replication engine: copyer.py (main loop and    *)
(* process_aggregated_orders), modules/sync_logic.py (perform_initial_sync *)
(* and main_event_loop), modules/order_aggregator.py, modules/             *)
(* state_manager.py, modules/order_handler.py (place_order_on_demo) and    *)
(* modules/sync_checker.py (check_positions_sync, handle_sync_action and   *)
(* execute_pending_sync_actions).                                          *)
(*                                                                         *)
(* Quantities are integers counted in units of 10^-qty_precision, the      *)
(* grid on which every replicated quantity lies after quantize().  Time is *)
(* counted in whole seconds.  An execId is the position of the fill in the *)
(* source account's history; 0 stands for Python's None.                   *)
(***************************************************************************)
EXTENDS Integers, Sequences, FiniteSets, TLC

(* ------------------------------ bounds -------------------------------- *)
MaxFills == 3        \* source fills in one behaviour
MaxFillQty == 2      \* largest quantity of one source fill
MaxTime == 14        \* last second at which a cycle may start
MaxRestarts == 1     \* restarts of the process after it has died
PageLimit == 2       \* stands for "limit": 100 of the execution query
MaxAdds == 3         \* add_fill calls made on one OrderAggregator
MaxClock == 4        \* seconds that pass while one OrderAggregator is used

(* ---------------------- configuration and constants ------------------- *)
MultNum == 1                       \* copy_multiplier = MultNum / MultDen
MultDen == 2
aggregation_window == 3            \* OrderAggregator.__init__ default
aggregation_window_seconds == 3    \* settings.get(..., 3) in main
loop_interval == 1                 \* settings['loop_interval']
MIN_INACTIVE_CYCLES_FOR_SYNC == 2

Symbols == {"BTCUSDT"}
Sides == {"Buy", "Sell"}
Keys == Symbols \X Sides
KeySeq == <<(<<"BTCUSDT", "Buy">>), (<<"BTCUSDT", "Sell">>)>>
None == 0

Opposite(side) == IF side = "Buy" THEN "Sell" ELSE "Buy"
Min(a, b) == IF a < b THEN a ELSE b

RECURSIVE Reverse(_)
Reverse(s) == IF s = <<>> THEN <<>> ELSE Append(Reverse(Tail(s)), Head(s))

RECURSIVE SumQty(_)
SumQty(s) == IF s = <<>> THEN 0 ELSE Head(s) + SumQty(Tail(s))

(* the product rounded half up instead of down *)
ScaleDown_half_up(q) == (2 * q * MultNum + MultDen) \div (2 * MultDen)

(* (Decimal(q) * multiplier).quantize(..., rounding=ROUND_DOWN) *)
ScaleDown(q) == (q * MultNum) \div MultDen

(* ------------------------------ state --------------------------------- *)
VARIABLES
    live_fills,      \* source account: execution history, oldest first
    live_positions,  \* source account: size per (symbol, side)
    demo_positions,  \* destination account: size per (symbol, side)
    file,            \* copier_state.json: [exists, last_processed_exec_id, position_map]
    state,           \* StateManager.state
    pending_orders,  \* OrderAggregator.pending_orders, in insertion order
    ready_orders,    \* the batch process_aggregated_orders iterates over
    order_idx,       \* its loop index i (1-based), 0 outside the loop
    last_id_to_commit,
    inactive_cycles_counter,
    activity_detected,
    new_last_id,
    isync,           \* perform_initial_sync: snapshots and loop position
    now,             \* time.time()
    pc,              \* position of main()
    restarts,        \* times the process was started again
    exit_cause,      \* why the process last died: "none" (it never did),
                     \* "fatal" (exception), "crash", "killed" (see ExecuteOrder)
    last_order,      \* the latest destination order and its outcome
    harness          \* the latest call and its outcome: in main() whether the
                     \* poll got its page, otherwise the function called directly

vars == <<live_fills, live_positions, demo_positions, file, state,
          pending_orders, ready_orders, order_idx, last_id_to_commit,
          inactive_cycles_counter, activity_detected, new_last_id, isync,
          now, pc, restarts, exit_cause, last_order, harness>>

srcVars == <<live_fills, live_positions>>
loopVars == <<pending_orders, ready_orders, order_idx, last_id_to_commit,
              inactive_cycles_counter, activity_detected, new_last_id>>
memVars == <<state, pending_orders, ready_orders, order_idx,
             last_id_to_commit, inactive_cycles_counter, activity_detected,
             new_last_id, isync>>

(* --------------------------- StateManager ----------------------------- *)
EmptyState == [last_processed_exec_id |-> None, position_map |-> {}]
NoFile == [exists |-> FALSE, complete |-> TRUE,
           last_processed_exec_id |-> None, position_map |-> {}]

get_mapped_position_key(symbol, side) == <<symbol, side>>

is_position_mapped(st, symbol, side) ==
    get_mapped_position_key(symbol, side) \in st.position_map

(* save(): open(file_path, 'w') and json.dump of the whole state, both     *)
(* finished; complete says that the text on disk is the whole JSON document *)
save(st) == [exists |-> TRUE, complete |-> TRUE,
             last_processed_exec_id |-> st.last_processed_exec_id,
             position_map |-> st.position_map]

(* save() cut short after open(file_path, 'w') has truncated the file and *)
(* before json.dump has written the whole document                        *)
save_interrupted(st) == [exists |-> TRUE, complete |-> FALSE,
                         last_processed_exec_id |-> None, position_map |-> {}]

(* load() of an existing file that reads only the cursor *)
load_cursor_only(f) ==
    IF f.complete
    THEN [last_processed_exec_id |-> f.last_processed_exec_id,
          position_map |-> {}]
    ELSE EmptyState

(* load() of an existing file: json.load, and the empty state when the    *)
(* text is not a JSON document (JSONDecodeError)                          *)
load(f) ==
    IF f.complete
    THEN [last_processed_exec_id |-> f.last_processed_exec_id,
          position_map |-> f.position_map]
    ELSE EmptyState

(* each of the three returns the new <<state, file>> *)
set_last_id(st, f, exec_id) ==
    LET st2 == [st EXCEPT !.last_processed_exec_id = exec_id]
    IN  <<st2, save(st2)>>

(* map_position that records nothing *)
map_position_skip(st, f, symbol, side) ==
    <<st, f>>

map_position(st, f, symbol, side) ==
    IF ~ is_position_mapped(st, symbol, side)
    THEN LET st2 == [st EXCEPT !.position_map =
                         @ \cup {get_mapped_position_key(symbol, side)}]
         IN  <<st2, save(st2)>>
    ELSE <<st, f>>

(* remove_mapping that drops every entry of the map *)
remove_mapping_clear(st, f, symbol, side) ==
    IF is_position_mapped(st, symbol, side)
    THEN LET st2 == [st EXCEPT !.position_map = {}]
         IN  <<st2, save(st2)>>
    ELSE <<st, f>>

remove_mapping(st, f, symbol, side) ==
    IF is_position_mapped(st, symbol, side)
    THEN LET st2 == [st EXCEPT !.position_map =
                         @ \ {get_mapped_position_key(symbol, side)}]
         IN  <<st2, save(st2)>>
    ELSE <<st, f>>

(* --------------------------- OrderAggregator -------------------------- *)
agg_key(fd) == <<fd.symbol, fd.side, fd.action>>

KeyIndex(po, key) ==
    IF \E i \in 1..Len(po) : po[i].key = key
    THEN CHOOSE i \in 1..Len(po) : po[i].key = key
    ELSE 0

(* add_fill that stores the quantity of the fill instead of adding it *)
add_fill_overwrite(po, fd, t) ==
    LET k == agg_key(fd)
        created == IF KeyIndex(po, k) = 0
                   THEN Append(po, [key |-> k,
                                    total_qty |-> 0,
                                    timestamp |-> t,
                                    is_increase |-> fd.is_increase,
                                    position_side_for_close |-> fd.position_side_for_close])
                   ELSE po
    IN  [created EXCEPT ![KeyIndex(created, k)].total_qty = fd.qty]

add_fill(po, fd, t) ==
    LET k == agg_key(fd)
        created == IF KeyIndex(po, k) = 0
                   THEN Append(po, [key |-> k,
                                    total_qty |-> 0,
                                    timestamp |-> t,
                                    is_increase |-> fd.is_increase,
                                    position_side_for_close |-> fd.position_side_for_close])
                   ELSE po
    IN  [created EXCEPT ![KeyIndex(created, k)].total_qty = @ + fd.qty]

(* the window test with >= in place of > *)
IsReady_inclusive(b, t) == t - b.timestamp >= aggregation_window

IsReady(b, t) == t - b.timestamp > aggregation_window

OrderOf(b) == [symbol |-> b.key[1], side |-> b.key[2], action |-> b.key[3],
               qty |-> b.total_qty, is_increase |-> b.is_increase,
               position_side_for_close |-> b.position_side_for_close]

RECURSIVE MapOrders(_)
MapOrders(bs) == IF bs = <<>> THEN <<>>
                 ELSE <<OrderOf(Head(bs))>> \o MapOrders(Tail(bs))

(* get_ready_orders without the deletion loop of lines 77-79 *)
get_ready_orders_keeps_buckets(po, t) ==
    LET ready(b) == IsReady(b, t)
    IN  <<MapOrders(SelectSeq(po, ready)), po>>

get_ready_orders(po, t) ==
    LET ready(b) == IsReady(b, t)
        kept(b) == ~ IsReady(b, t)
    IN  <<MapOrders(SelectSeq(po, ready)), SelectSeq(po, kept)>>

(* the summary entry that reports the order side also for a CLOSE *)
PeekOf_order_side(b) == [symbol |-> b.key[1], side |-> b.key[2],
                         action |-> b.key[3]]

PeekOf(b) == [symbol |-> b.key[1],
              side |-> IF b.key[3] = "CLOSE" THEN b.position_side_for_close
                       ELSE b.key[2],
              action |-> b.key[3]]

RECURSIVE MapPeek(_)
MapPeek(bs) == IF bs = <<>> THEN <<>>
               ELSE <<PeekOf(Head(bs))>> \o MapPeek(Tail(bs))

peek_pending_actions(po, t) ==
    LET young(b) == t - b.timestamp <= aggregation_window
    IN  MapPeek(SelectSeq(po, young))

(* ----------------------------- the venue ------------------------------ *)
ZeroPositions == [k \in Keys |-> 0]

(* the position an order acts on: its own side when it opens, the         *)
(* opposite side when it is reduce-only                                    *)
PositionKeyOf(params) ==
    <<params.symbol,
      IF params.reduceOnly THEN Opposite(params.side) ELSE params.side>>

(* /v5/order/create can answer retCode 0 only for a positive quantity and, *)
(* for a reduce-only order, only when there is a position to reduce        *)
VenueCanAccept(dp, params) ==
    /\ params.qty > 0
    /\ params.reduceOnly => dp[PositionKeyOf(params)] > 0

VenueApply(dp, params) ==
    IF params.reduceOnly
    THEN [dp EXCEPT ![PositionKeyOf(params)] = @ - Min(params.qty, @)]
    ELSE [dp EXCEPT ![PositionKeyOf(params)] = @ + params.qty]

NoOrder == [symbol |-> "", side |-> "", qty |-> 0, reduceOnly |-> FALSE,
            accepted |-> FALSE]

OrderRecord(params, ok) ==
    [symbol |-> params.symbol, side |-> params.side, qty |-> params.qty,
     reduceOnly |-> params.reduceOnly, accepted |-> ok]

(* newest first, at most PageLimit entries: /v5/execution/list            *)
ExecutionList(fills, limit) ==
    [i \in 1..Min(Len(fills), limit) |-> fills[Len(fills) - i + 1]]

(* get_data that answers with a page also when the request failed *)
get_data_optimistic(fills, limit, fetched) ==
    [ok |-> TRUE, list |-> ExecutionList(fills, limit)]

(* get_data(live_api, "/v5/execution/list", ...): the 'result' of the     *)
(* response, or None (ok = FALSE) when make_api_request raised            *)
get_data(fills, limit, fetched) ==
    IF fetched THEN [ok |-> TRUE, list |-> ExecutionList(fills, limit)]
    ELSE [ok |-> FALSE, list |-> <<>>]

(* --------------------------- main_event_loop -------------------------- *)
(* the loop over the page without the break at the cursor *)
new_fills_to_process_no_break(recent_fills, last_known_id) ==
    recent_fills

(* the fills of the page that come before the entry whose id is the cursor *)
new_fills_to_process(recent_fills, last_known_id) ==
    LET hits == {i \in 1..Len(recent_fills) :
                     recent_fills[i].execId = last_known_id}
        stop == IF hits = {} THEN Len(recent_fills) + 1
                ELSE CHOOSE i \in hits : \A j \in hits : i <= j
    IN  SubSeq(recent_fills, 1, stop - 1)

(* settings.symbols_to_copy and a symbol that is not in it *)
symbols_to_copy == Symbols
OtherSymbol == "ETHUSDT"

(* the body of the loop over reversed(new_fills_to_process) for one fill, *)
(* lines 126-170; first as it would be if a closing fill looked up the    *)
(* mapping of its own side                                                *)
process_fill_own_side(po, st, fill, t) ==
    IF fill.execType # "Trade" THEN po
    ELSE IF symbols_to_copy # {} /\ fill.symbol \notin symbols_to_copy THEN po
    ELSE IF fill.closedSize > 0
    THEN LET position_side == Opposite(fill.side)
             demo_qty == ScaleDown(fill.closedSize)
         IN  IF is_position_mapped(st, fill.symbol, fill.side) /\ demo_qty # 0
             THEN add_fill(po, [symbol |-> fill.symbol, side |-> fill.side,
                                qty |-> demo_qty, action |-> "CLOSE",
                                is_increase |-> FALSE,
                                position_side_for_close |-> position_side], t)
             ELSE po
    ELSE LET is_increase == is_position_mapped(st, fill.symbol, fill.side)
             demo_qty == ScaleDown(fill.execQty)
         IN  IF demo_qty # 0
             THEN add_fill(po, [symbol |-> fill.symbol, side |-> fill.side,
                                qty |-> demo_qty, action |-> "OPEN",
                                is_increase |-> is_increase,
                                position_side_for_close |-> "None"], t)
             ELSE po

process_fill(po, st, fill, t) ==
    IF fill.execType # "Trade" THEN po
    ELSE IF symbols_to_copy # {} /\ fill.symbol \notin symbols_to_copy THEN po
    ELSE IF fill.closedSize > 0
    THEN LET position_side == Opposite(fill.side)
             demo_qty == ScaleDown(fill.closedSize)
         IN  IF is_position_mapped(st, fill.symbol, position_side) /\ demo_qty # 0
             THEN add_fill(po, [symbol |-> fill.symbol, side |-> fill.side,
                                qty |-> demo_qty, action |-> "CLOSE",
                                is_increase |-> FALSE,
                                position_side_for_close |-> position_side], t)
             ELSE po
    ELSE LET is_increase == is_position_mapped(st, fill.symbol, fill.side)
             demo_qty == ScaleDown(fill.execQty)
         IN  IF demo_qty # 0
             THEN add_fill(po, [symbol |-> fill.symbol, side |-> fill.side,
                                qty |-> demo_qty, action |-> "OPEN",
                                is_increase |-> is_increase,
                                position_side_for_close |-> "None"], t)
             ELSE po

RECURSIVE process_fills(_, _, _, _)
process_fills(po, st, fs, t) ==
    IF fs = <<>> THEN po
    ELSE process_fills(process_fill(po, st, Head(fs), t), st, Tail(fs), t)

(* main_event_loop proposing the id of the oldest new fill as the cursor *)
main_event_loop_oldest_id(st, po, fills, fetched, t) ==
    LET last_known_id == st.last_processed_exec_id
        recent_fills_data == get_data(fills, PageLimit, fetched)
        recent_fills == recent_fills_data.list
        new_fills == new_fills_to_process(recent_fills, last_known_id)
        quiet == [activity_detected |-> FALSE, last_id_to_save |-> None,
                  processed |-> <<>>, pending_orders |-> po]
    IN  IF last_known_id = None THEN quiet
        ELSE IF ~ recent_fills_data.ok \/ recent_fills = <<>> THEN quiet
        ELSE IF new_fills = <<>> THEN quiet
        ELSE [activity_detected |-> TRUE,
              last_id_to_save |-> new_fills[Len(new_fills)].execId,
              processed |-> Reverse(new_fills),
              pending_orders |-> process_fills(po, st, Reverse(new_fills), t)]

(* main_event_loop: fetched is FALSE when get_data returned None.          *)
(* Result: [activity_detected, last_id_to_save, processed, pending_orders] *)
main_event_loop(st, po, fills, fetched, t) ==
    LET last_known_id == st.last_processed_exec_id
        recent_fills_data == get_data(fills, PageLimit, fetched)
        recent_fills == recent_fills_data.list
        new_fills == new_fills_to_process(recent_fills, last_known_id)
        quiet == [activity_detected |-> FALSE, last_id_to_save |-> None,
                  processed |-> <<>>, pending_orders |-> po]
    IN  IF last_known_id = None THEN quiet
        ELSE IF ~ recent_fills_data.ok \/ recent_fills = <<>> THEN quiet
        ELSE IF new_fills = <<>> THEN quiet
        ELSE [activity_detected |-> TRUE,
              last_id_to_save |-> recent_fills[1].execId,
              processed |-> Reverse(new_fills),
              pending_orders |-> process_fills(po, st, Reverse(new_fills), t)]

(* ------------------------- the source account ------------------------- *)
NewFill(symbol, side, execQty, closedSize, execType) ==
    [execId |-> Len(live_fills) + 1, symbol |-> symbol, side |-> side,
     execQty |-> execQty, closedSize |-> closedSize, execType |-> execType]

(* the source trader opens or increases a position *)
SourceOpen ==
    /\ Len(live_fills) < MaxFills
    /\ \E k \in Keys, q \in 1..MaxFillQty :
          /\ live_fills' = Append(live_fills, NewFill(k[1], k[2], q, 0, "Trade"))
          /\ live_positions' = [live_positions EXCEPT ![k] = @ + q]
    /\ UNCHANGED <<demo_positions, file, memVars, now, pc, restarts,
                   exit_cause, last_order, harness>>

(* the source trader reduces or closes a position *)
SourceClose ==
    /\ Len(live_fills) < MaxFills
    /\ \E k \in Keys, q \in 1..MaxFillQty :
          /\ q <= live_positions[k]
          /\ live_fills' = Append(live_fills,
                                  NewFill(k[1], Opposite(k[2]), q, q, "Trade"))
          /\ live_positions' = [live_positions EXCEPT ![k] = @ - q]
    /\ UNCHANGED <<demo_positions, file, memVars, now, pc, restarts,
                   exit_cause, last_order, harness>>

(* an execution that is not a trade (funding, settlement) *)
SourceFunding ==
    /\ Len(live_fills) < MaxFills
    /\ \E k \in Keys :
          /\ live_positions[k] > 0
          /\ live_fills' = Append(live_fills, NewFill(k[1], k[2], 1, 0, "Funding"))
    /\ UNCHANGED <<live_positions, demo_positions, file, memVars, now, pc,
                   restarts, exit_cause, last_order, harness>>

(* ------------------------------ main() -------------------------------- *)
NoISync == [live |-> ZeroPositions, demo |-> ZeroPositions, idx |-> 0,
            cycle_events |-> <<>>, accepted |-> 0]

(* perform_initial_sync, lines 47, 70 and 75: the event of one order *)
ISyncEvent(type, k, qty) ==
    [type |-> type, symbol |-> k[1], side |-> k[2], qty |-> qty]
NoHarness == [op |-> "none"]

(* what the latest main_event_loop got from get_data: fetched is FALSE    *)
(* when the request for the executions failed                             *)
FetchRecord(fetched) == [op |-> "main_event_loop", fetched |-> fetched]

(* the process ends: what it held in memory is gone *)
Die(cause) ==
    /\ pc' = "dead"
    /\ exit_cause' = cause
    /\ pending_orders' = <<>>
    /\ ready_orders' = <<>>
    /\ order_idx' = 0
    /\ last_id_to_commit' = None
    /\ inactive_cycles_counter' = 0
    /\ activity_detected' = FALSE
    /\ new_last_id' = None
    /\ isync' = NoISync

(* StateManager(DATA_DIR), OrderAggregator(), the loop's local variables  *)
Startup ==
    /\ pc = "start"
    /\ state' = IF file.exists THEN load(file) ELSE EmptyState
    /\ pending_orders' = <<>>
    /\ ready_orders' = <<>>
    /\ order_idx' = 0
    /\ last_id_to_commit' = None
    /\ inactive_cycles_counter' = 0
    /\ activity_detected' = FALSE
    /\ new_last_id' = None
    /\ isync' = NoISync
    /\ pc' = IF file.exists THEN "poll" ELSE "isync_fetch"
    /\ UNCHANGED <<srcVars, demo_positions, file, now, restarts, exit_cause,
                   last_order, harness>>

(* perform_initial_sync, lines 26-37: the two position snapshots *)
ISyncFetch ==
    /\ pc = "isync_fetch"
    /\ \E fetched \in BOOLEAN :
          IF fetched
          THEN /\ isync' = [live |-> live_positions, demo |-> demo_positions,
                            idx |-> 1, cycle_events |-> <<>>, accepted |-> 0]
               /\ pc' = "isync_close"
          ELSE /\ isync' = NoISync
               /\ pc' = "poll"
    /\ UNCHANGED <<srcVars, demo_positions, file, state, pending_orders,
                   ready_orders, order_idx, last_id_to_commit,
                   inactive_cycles_counter, activity_detected, new_last_id,
                   now, restarts, exit_cause, last_order, harness>>

(* perform_initial_sync, lines 40-48: one iteration of the loop that      *)
(* closes destination positions the source does not hold                  *)
ISyncClose ==
    /\ pc = "isync_close"
    /\ IF isync.idx > Len(KeySeq)
       THEN /\ isync' = [isync EXCEPT !.idx = 1]
            /\ pc' = "isync_correct"
            /\ UNCHANGED <<demo_positions, last_order, exit_cause, loopVars>>
       ELSE LET k == KeySeq[isync.idx]
                close_params == [symbol |-> k[1], side |-> Opposite(k[2]),
                                 qty |-> isync.demo[k], reduceOnly |-> TRUE]
            IN  IF isync.demo[k] > 0 /\ isync.live[k] = 0
                THEN \E ok \in BOOLEAN :
                        /\ ok => VenueCanAccept(demo_positions, close_params)
                        /\ last_order' = OrderRecord(close_params, ok)
                        /\ IF ok
                           THEN /\ demo_positions' = VenueApply(demo_positions, close_params)
                                /\ isync' = [isync EXCEPT
                                       !.idx = @ + 1,
                                       !.accepted = @ + 1,
                                       !.cycle_events =
                                          Append(@, ISyncEvent("close", k,
                                                               isync.demo[k]))]
                                /\ UNCHANGED <<pc, exit_cause, loopVars>>
                           ELSE /\ Die("fatal")
                                /\ UNCHANGED demo_positions
                ELSE /\ isync' = [isync EXCEPT !.idx = @ + 1]
                     /\ UNCHANGED <<demo_positions, last_order, pc, exit_cause,
                                    loopVars>>
    /\ UNCHANGED <<srcVars, file, state, now, restarts, harness>>

(* perform_initial_sync, lines 51-78: one iteration of the loop over the  *)
(* source positions.  lev_ok: set_leverage_on_demo returned; close_ok and *)
(* open_ok: the outcome of the two orders, where they are placed          *)
ISyncCorrect ==
    /\ pc = "isync_correct"
    /\ IF isync.idx > Len(KeySeq)
       THEN /\ pc' = "isync_cursor"
            /\ UNCHANGED <<isync, demo_positions, last_order, exit_cause, state,
                           file, now, loopVars>>
       ELSE LET k == KeySeq[isync.idx]
                expected_qty == ScaleDown(isync.live[k])
                actual_qty == isync.demo[k]
                open_params == [symbol |-> k[1], side |-> k[2],
                                qty |-> expected_qty, reduceOnly |-> FALSE]
                close_params == [symbol |-> k[1], side |-> Opposite(k[2]),
                                 qty |-> actual_qty, reduceOnly |-> TRUE]
                mismatch == \/ actual_qty - expected_qty > 1
                            \/ expected_qty - actual_qty > 1
                mapped == map_position(state, file, k[1], k[2])
            IN  IF isync.live[k] = 0
                THEN /\ isync' = [isync EXCEPT !.idx = @ + 1]
                     /\ UNCHANGED <<demo_positions, last_order, pc, exit_cause,
                                    state, file, now, loopVars>>
                ELSE \E lev_ok, close_ok, open_ok \in BOOLEAN :
                      IF ~ lev_ok
                      THEN \* set_leverage_on_demo raised
                           /\ close_ok /\ open_ok
                           /\ Die("fatal")
                           /\ UNCHANGED <<demo_positions, last_order, state,
                                          file, now>>
                      ELSE IF actual_qty > 0 /\ ~ mismatch
                      THEN \* within the tolerance: no order, the key is mapped
                           /\ close_ok /\ open_ok
                           /\ state' = mapped[1]
                           /\ file' = mapped[2]
                           /\ isync' = [isync EXCEPT !.idx = @ + 1]
                           /\ now' = now + 1
                           /\ UNCHANGED <<demo_positions, last_order, pc,
                                          exit_cause, loopVars>>
                      ELSE IF actual_qty > 0 /\ ~ close_ok
                      THEN \* the closing order of the resize raised
                           /\ open_ok
                           /\ last_order' = OrderRecord(close_params, FALSE)
                           /\ Die("fatal")
                           /\ UNCHANGED <<demo_positions, state, file, now>>
                      ELSE LET dp == IF actual_qty > 0
                                     THEN VenueApply(demo_positions, close_params)
                                     ELSE demo_positions
                           IN  /\ actual_qty > 0 =>
                                    VenueCanAccept(demo_positions, close_params)
                               /\ actual_qty = 0 => close_ok
                               /\ open_ok => VenueCanAccept(dp, open_params)
                               /\ last_order' = OrderRecord(open_params, open_ok)
                               /\ demo_positions' =
                                    IF open_ok THEN VenueApply(dp, open_params) ELSE dp
                               /\ IF open_ok
                                  THEN /\ state' = mapped[1]
                                       /\ file' = mapped[2]
                                       /\ isync' = [isync EXCEPT
                                              !.idx = @ + 1,
                                              !.accepted =
                                                 @ + (IF actual_qty > 0 THEN 2 ELSE 1),
                                              !.cycle_events =
                                                 Append(@, ISyncEvent("open", k,
                                                                      expected_qty))]
                                       /\ now' = now + (IF actual_qty > 0 THEN 2 ELSE 1)
                                       /\ UNCHANGED <<pc, exit_cause, loopVars>>
                                  ELSE /\ Die("fatal")
                                       /\ UNCHANGED <<state, file, now>>
    /\ UNCHANGED <<srcVars, restarts, harness>>

(* perform_initial_sync, lines 80-89: the newest execution id becomes the *)
(* cursor                                                                  *)
ISyncCursor ==
    /\ pc = "isync_cursor"
    /\ \E fetched \in BOOLEAN :
          LET recent_executions == ExecutionList(live_fills, 1)
              saved == set_last_id(state, file, recent_executions[1].execId)
          IN  IF fetched /\ recent_executions # <<>>
              THEN /\ state' = saved[1]
                   /\ file' = saved[2]
              ELSE UNCHANGED <<state, file>>
    /\ pc' = "poll"
    /\ isync' = NoISync
    /\ UNCHANGED <<srcVars, demo_positions, pending_orders, ready_orders,
                   order_idx, last_id_to_commit, inactive_cycles_counter,
                   activity_detected, new_last_id, now, restarts,
                   exit_cause, last_order, harness>>

(* the poll saving the cursor candidate as soon as it has read the fills *)
Poll_saves_cursor ==
    /\ pc = "poll"
    /\ now <= MaxTime
    /\ \E fetched \in BOOLEAN :
          LET r == main_event_loop(state, pending_orders, live_fills, fetched, now)
              saved == set_last_id(state, file, r.last_id_to_save)
          IN  /\ activity_detected' = r.activity_detected
              /\ new_last_id' = r.last_id_to_save
              /\ pending_orders' = r.pending_orders
              /\ inactive_cycles_counter' =
                    IF r.activity_detected THEN 0 ELSE inactive_cycles_counter + 1
              /\ now' = IF r.activity_detected
                        THEN now + aggregation_window_seconds + 1 ELSE now
              /\ last_id_to_commit' =
                    IF r.last_id_to_save # None THEN r.last_id_to_save
                    ELSE last_id_to_commit
              /\ harness' = FetchRecord(fetched)
              /\ IF r.last_id_to_save # None
                 THEN state' = saved[1] /\ file' = saved[2]
                 ELSE UNCHANGED <<state, file>>
    /\ pc' = "drain"
    /\ UNCHANGED <<srcVars, demo_positions, ready_orders,
                   order_idx, isync, restarts, exit_cause, last_order>>

(* main, lines 219-233: main_event_loop, the idle counter, the wait for   *)
(* the aggregation window and the cursor candidate                        *)
Poll ==
    /\ pc = "poll"
    /\ now <= MaxTime
    /\ \E fetched \in BOOLEAN :
          LET r == main_event_loop(state, pending_orders, live_fills, fetched, now)
          IN  /\ activity_detected' = r.activity_detected
              /\ new_last_id' = r.last_id_to_save
              /\ pending_orders' = r.pending_orders
              /\ inactive_cycles_counter' =
                    IF r.activity_detected THEN 0 ELSE inactive_cycles_counter + 1
              /\ now' = IF r.activity_detected
                        THEN now + aggregation_window_seconds + 1 ELSE now
              /\ last_id_to_commit' =
                    IF r.last_id_to_save # None THEN r.last_id_to_save
                    ELSE last_id_to_commit
              /\ harness' = FetchRecord(fetched)
    /\ pc' = "drain"
    /\ UNCHANGED <<srcVars, demo_positions, file, state, ready_orders,
                   order_idx, isync, restarts, exit_cause, last_order>>

(* main, lines 236-241: get_ready_orders and the entry of                 *)
(* process_aggregated_orders                                               *)
Drain ==
    /\ pc = "drain"
    /\ LET r == get_ready_orders(pending_orders, now)
       IN  /\ ready_orders' = r[1]
           /\ pending_orders' = r[2]
           /\ order_idx' = IF r[1] # <<>> THEN 1 ELSE 0
           /\ pc' = IF r[1] # <<>> THEN "exec" ELSE "sync"
    /\ UNCHANGED <<srcVars, demo_positions, file, state, last_id_to_commit,
                   inactive_cycles_counter, activity_detected, new_last_id,
                   isync, now, restarts, exit_cause, last_order, harness>>

(* symbols of the batch that have both a CLOSE and an OPEN action *)
close_reopen_pairs(orders) ==
    {sym \in Symbols :
        /\ \E i \in 1..Len(orders) : orders[i].symbol = sym /\ orders[i].action = "CLOSE"
        /\ \E i \in 1..Len(orders) : orders[i].symbol = sym /\ orders[i].action = "OPEN"}

(* the order process_aggregated_orders builds for one aggregated action   *)
OrderParams(order) ==
    [symbol |-> order.symbol, side |-> order.side, qty |-> order.qty,
     reduceOnly |-> (order.action = "CLOSE")]

(* the key process_aggregated_orders maps (OPEN) or unmaps (CLOSE) *)
MappingKeyOf(order) ==
    IF order.action = "OPEN" THEN <<order.symbol, order.side>>
    ELSE <<order.symbol, order.position_side_for_close>>

(* the state store updated for the order's own side also on a CLOSE *)
StateAfterOrder_order_side(st, f, order) ==
    IF order.action = "OPEN"
    THEN map_position(st, f, order.symbol, order.side)
    ELSE remove_mapping(st, f, order.symbol, order.side)

(* the state store after an accepted order of the batch *)
StateAfterOrder(st, f, order) ==
    IF order.action = "OPEN"
    THEN map_position(st, f, order.symbol, order.side)
    ELSE remove_mapping(st, f, order.symbol, order.position_side_for_close)

(* leaving the for loop of process_aggregated_orders, or its next round   *)
NextOrder ==
    /\ IF order_idx = Len(ready_orders)
       THEN /\ order_idx' = 0
            /\ ready_orders' = <<>>
            /\ inactive_cycles_counter' = 0
            /\ pc' = "sync"
       ELSE /\ order_idx' = order_idx + 1
            /\ UNCHANGED <<ready_orders, inactive_cycles_counter, pc>>
    /\ UNCHANGED <<pending_orders, last_id_to_commit, activity_detected,
                   new_last_id, isync, exit_cause>>

(* process_aggregated_orders, lines 46-95: one iteration.  outcome:       *)
(*   "accepted"  retCode 0, and the calls that follow returned            *)
(*   "rejected"  make_api_request raised for /v5/order/create             *)
(*   "leverage"  make_api_request raised for /v5/position/set-leverage    *)
(*   "pnl"       retCode 0, then get_pnl_update_after_close raised        *)
(*   "killed"    retCode 0, then the process stopped before map_position  *)
ExecuteOrder ==
    /\ pc = "exec"
    /\ LET order == ready_orders[order_idx]
           params == OrderParams(order)
           wait == IF order.action = "OPEN"
                      /\ order.symbol \in close_reopen_pairs(ready_orders)
                   THEN 3 ELSE 0
           after == StateAfterOrder(state, file, order)
       IN  /\ now' = now + wait
           /\ IF order.qty <= 0
              THEN /\ NextOrder
                   /\ UNCHANGED <<demo_positions, state, file, last_order>>
              ELSE \E outcome \in {"accepted", "rejected", "leverage", "pnl", "killed"} :
                    /\ outcome = "leverage" => order.action = "OPEN" /\ ~ order.is_increase
                    /\ outcome = "pnl" => order.action = "CLOSE"
                    /\ outcome \in {"accepted", "pnl", "killed"} =>
                           VenueCanAccept(demo_positions, params)
                    /\ CASE outcome = "accepted" ->
                              /\ demo_positions' = VenueApply(demo_positions, params)
                              /\ last_order' = OrderRecord(params, TRUE)
                              /\ state' = after[1]
                              /\ file' = after[2]
                              /\ NextOrder
                         [] outcome = "rejected" ->
                              /\ last_order' = OrderRecord(params, FALSE)
                              /\ Die("fatal")
                              /\ UNCHANGED <<demo_positions, state, file>>
                         [] outcome = "leverage" ->
                              /\ Die("fatal")
                              /\ UNCHANGED <<demo_positions, state, file, last_order>>
                         [] outcome = "pnl" ->
                              /\ demo_positions' = VenueApply(demo_positions, params)
                              /\ last_order' = OrderRecord(params, TRUE)
                              /\ state' = after[1]
                              /\ file' = after[2]
                              /\ Die("fatal")
                         [] outcome = "killed" ->
                              /\ demo_positions' = VenueApply(demo_positions, params)
                              /\ last_order' = OrderRecord(params, TRUE)
                              /\ Die("killed")
                              /\ UNCHANGED <<state, file>>
    /\ UNCHANGED <<srcVars, restarts, harness>>

(* main, lines 245-254: after MIN_INACTIVE_CYCLES_FOR_SYNC idle cycles    *)
(* check_positions_sync is called with the keyword pending_actions, which *)
(* check_positions_sync(config_data, data_dir, sync_trigger) does not     *)
(* accept: the call raises TypeError, caught by main's except Exception   *)
SyncStep ==
    /\ pc = "sync"
    /\ IF inactive_cycles_counter >= MIN_INACTIVE_CYCLES_FOR_SYNC
       THEN Die("fatal")
       ELSE /\ pc' = "report"
            /\ UNCHANGED <<exit_cause, loopVars, isync>>
    /\ UNCHANGED <<srcVars, demo_positions, file, state, now, restarts,
                   last_order, harness>>

(* main, lines 258-274: reports, stop-loss levels and the cycle summary;  *)
(* none of them touches the state store or the aggregator                 *)
Report ==
    /\ pc = "report"
    /\ pc' = "commit"
    /\ UNCHANGED <<srcVars, demo_positions, file, memVars, now, restarts,
                   exit_cause, last_order, harness>>

(* main, lines 276-283: the cursor is saved and the loop sleeps *)
Commit ==
    /\ pc = "commit"
    /\ LET saved == set_last_id(state, file, last_id_to_commit)
       IN  IF last_id_to_commit # None
           THEN /\ state' = saved[1]
                /\ file' = saved[2]
           ELSE UNCHANGED <<state, file>>
    /\ last_id_to_commit' = None
    /\ now' = now + loop_interval
    /\ pc' = "poll"
    /\ UNCHANGED <<srcVars, demo_positions, pending_orders, ready_orders,
                   order_idx, inactive_cycles_counter, activity_detected,
                   new_last_id, isync, restarts, exit_cause, last_order, harness>>

(* the process is killed (power loss, SIGKILL): memory is lost, the state *)
(* file stays as it was last saved                                        *)
Crash ==
    /\ pc \notin {"dead", "start"}
    /\ Die("crash")
    /\ UNCHANGED <<srcVars, demo_positions, file, state, now, restarts,
                   last_order, harness>>

(* the operator or the supervisor starts main() again *)
Restart ==
    /\ pc = "dead"
    /\ restarts < MaxRestarts
    /\ restarts' = restarts + 1
    /\ pc' = "start"
    /\ UNCHANGED <<srcVars, demo_positions, file, memVars, now, exit_cause,
                   last_order, harness>>

(* ------------------------- the specification -------------------------- *)
InitialFill == [execId |-> 1, symbol |-> "BTCUSDT", side |-> "Buy",
                execQty |-> 2, closedSize |-> 0, execType |-> "Trade"]

Init ==
    /\ \/ /\ live_fills = <<>>
          /\ live_positions = ZeroPositions
       \/ /\ live_fills = <<InitialFill>>
          /\ live_positions = [ZeroPositions EXCEPT ![<<"BTCUSDT", "Buy">>] = 2]
    /\ demo_positions \in {ZeroPositions,
                           [ZeroPositions EXCEPT ![<<"BTCUSDT", "Buy">>] = 1],
                           [ZeroPositions EXCEPT ![<<"BTCUSDT", "Sell">>] = 1]}
    /\ file = NoFile
    /\ state = EmptyState
    /\ pending_orders = <<>>
    /\ ready_orders = <<>>
    /\ order_idx = 0
    /\ last_id_to_commit = None
    /\ inactive_cycles_counter = 0
    /\ activity_detected = FALSE
    /\ new_last_id = None
    /\ isync = NoISync
    /\ now = 0
    /\ pc = "start"
    /\ restarts = 0
    /\ exit_cause = "none"
    /\ last_order = NoOrder
    /\ harness = NoHarness

Next ==
    \/ SourceOpen
    \/ SourceClose
    \/ SourceFunding
    \/ Startup
    \/ ISyncFetch
    \/ ISyncClose
    \/ ISyncCorrect
    \/ ISyncCursor
    \/ Poll
    \/ Drain
    \/ ExecuteOrder
    \/ SyncStep
    \/ Report
    \/ Commit
    \/ Crash
    \/ Restart

Spec == Init /\ [][Next]_vars

TypeOK ==
    /\ pc \in {"start", "isync_fetch", "isync_close", "isync_correct",
               "isync_cursor", "poll", "drain", "exec", "sync", "report",
               "commit", "dead"}
    /\ exit_cause \in {"none", "fatal", "crash", "killed"}
    /\ Len(live_fills) <= MaxFills
    /\ \A k \in Keys : live_positions[k] >= 0 /\ demo_positions[k] >= 0
    /\ file.exists => state = load(file) \/ pc \in {"dead", "start"}

(* ---------------- the OrderAggregator called directly ----------------- *)
(* Every operation of the class, called in any order with any argument,   *)
(* with the clock advancing in between.  harness records the calls:       *)
(*   op      the operation called last                                    *)
(*   log     per key, the quantities added since the bucket was created   *)
(*   result  what the last get_ready_orders / peek_pending_actions gave   *)
(*   fills   per returned action, the quantities it was built from        *)
(*   adds    number of add_fill calls so far                              *)
Actions == {"OPEN", "CLOSE"}
AggKeys == Symbols \X Sides \X Actions

FillData ==
    { [symbol |-> sym, side |-> sd, qty |-> q, action |-> "OPEN",
       is_increase |-> inc, position_side_for_close |-> "None"] :
         sym \in Symbols, sd \in Sides, q \in 1..MaxFillQty, inc \in BOOLEAN }
    \cup
    { [symbol |-> sym, side |-> sd, qty |-> q, action |-> "CLOSE",
       is_increase |-> FALSE, position_side_for_close |-> Opposite(sd)] :
         sym \in Symbols, sd \in Sides, q \in 1..MaxFillQty }

(* a fill of quantity q for aggregation key k *)
FillOf(k, q) ==
    [symbol |-> k[1], side |-> k[2], qty |-> q, action |-> k[3],
     is_increase |-> FALSE,
     position_side_for_close |-> IF k[3] = "CLOSE" THEN Opposite(k[2]) ELSE "None"]

EmptyLog == [k \in AggKeys |-> <<>>]

AggHarness(op, log, result, fills, adds) ==
    [op |-> op, log |-> log, result |-> result, fills |-> fills, adds |-> adds]

restVars == <<live_fills, live_positions, demo_positions, file, state,
              ready_orders, order_idx, last_id_to_commit,
              inactive_cycles_counter, activity_detected, new_last_id, isync,
              pc, restarts, exit_cause, last_order>>

RestInit ==
    /\ live_fills = <<>>
    /\ live_positions = ZeroPositions
    /\ demo_positions = ZeroPositions
    /\ file = NoFile
    /\ state = EmptyState
    /\ ready_orders = <<>>
    /\ order_idx = 0
    /\ last_id_to_commit = None
    /\ inactive_cycles_counter = 0
    /\ activity_detected = FALSE
    /\ new_last_id = None
    /\ isync = NoISync
    /\ pc = "unit"
    /\ restarts = 0
    /\ exit_cause = "none"
    /\ last_order = NoOrder

AggInit ==
    /\ RestInit
    /\ pending_orders = <<>>
    /\ now = 0
    /\ harness = AggHarness("init", EmptyLog, <<>>, <<>>, 0)

AggAddFill ==
    /\ harness.adds < MaxAdds
    /\ \E fd \in FillData :
          /\ pending_orders' = add_fill(pending_orders, fd, now)
          /\ harness' = AggHarness("add_fill",
                            [harness.log EXCEPT ![agg_key(fd)] = Append(@, fd.qty)],
                            <<>>, <<>>, harness.adds + 1)
    /\ UNCHANGED <<now, restVars>>

RECURSIVE LogsOf(_, _)
LogsOf(orders, log) ==
    IF orders = <<>> THEN <<>>
    ELSE <<log[<<Head(orders).symbol, Head(orders).side, Head(orders).action>>]>>
         \o LogsOf(Tail(orders), log)

AggGetReadyOrders ==
    /\ LET r == get_ready_orders(pending_orders, now)
           gone == {<<r[1][i].symbol, r[1][i].side, r[1][i].action>> :
                        i \in 1..Len(r[1])}
       IN  /\ pending_orders' = r[2]
           /\ harness' = AggHarness("get_ready_orders",
                             [k \in AggKeys |->
                                 IF k \in gone THEN <<>> ELSE harness.log[k]],
                             r[1], LogsOf(r[1], harness.log), harness.adds)
    /\ UNCHANGED <<now, restVars>>

AggPeekPendingActions ==
    /\ harness' = AggHarness("peek_pending_actions", harness.log,
                             peek_pending_actions(pending_orders, now), <<>>,
                             harness.adds)
    /\ UNCHANGED <<pending_orders, now, restVars>>

AggTick ==
    /\ now < MaxClock
    /\ now' = now + 1
    /\ harness' = AggHarness("tick", harness.log, <<>>, <<>>, harness.adds)
    /\ UNCHANGED <<pending_orders, restVars>>

AggNext ==
    \/ AggAddFill
    \/ AggGetReadyOrders
    \/ AggPeekPendingActions
    \/ AggTick

AggSpec == AggInit /\ [][AggNext]_vars

(* ------------------------ check_positions_sync ------------------------ *)
(* (Decimal(size) * multiplier).quantize(Decimal('1e-N')): the default    *)
(* rounding of the decimal context, ROUND_HALF_EVEN                       *)
ScaleHalfEven(q) ==
    LET n == q * MultNum
        fl == n \div MultDen
        rem == n % MultDen
    IN  IF 2 * rem > MultDen THEN fl + 1
        ELSE IF 2 * rem = MultDen /\ fl % 2 = 1 THEN fl + 1
        ELSE fl

NoSyncState == [waiting_for_reply |-> FALSE, discrepancies |-> <<>>,
                pending_action |-> "None"]

(* the discrepancy of one source position with a tolerance of less than  *)
(* one quantity step                                                      *)
LiveDiscrepancy_strict(k, live, demo) ==
    LET expected_demo_qty == ScaleHalfEven(live[k])
        demo_qty == demo[k]
    IN  IF demo[k] > 0
        THEN IF demo_qty - expected_demo_qty >= 1 \/ expected_demo_qty - demo_qty >= 1
             THEN <<[type |-> "size_mismatch", symbol |-> k[1], side |-> k[2],
                     expected_demo_qty |-> expected_demo_qty,
                     actual_demo_qty |-> demo_qty]>>
             ELSE <<>>
        ELSE <<[type |-> "missing_on_demo", symbol |-> k[1], side |-> k[2],
                expected_demo_qty |-> expected_demo_qty, actual_demo_qty |-> 0]>>

(* sync_checker.py lines 58-66: the discrepancy of one source position    *)
LiveDiscrepancy(k, live, demo) ==
    LET expected_demo_qty == ScaleHalfEven(live[k])
        demo_qty == demo[k]
    IN  IF demo[k] > 0
        THEN IF demo_qty - expected_demo_qty > 1 \/ expected_demo_qty - demo_qty > 1
             THEN <<[type |-> "size_mismatch", symbol |-> k[1], side |-> k[2],
                     expected_demo_qty |-> expected_demo_qty,
                     actual_demo_qty |-> demo_qty]>>
             ELSE <<>>
        ELSE <<[type |-> "missing_on_demo", symbol |-> k[1], side |-> k[2],
                expected_demo_qty |-> expected_demo_qty, actual_demo_qty |-> 0]>>

(* sync_checker.py lines 68-70 *)
ExtraDiscrepancy(k, live, demo) ==
    IF live[k] = 0
    THEN <<[type |-> "extra_on_demo", symbol |-> k[1], side |-> k[2],
            expected_demo_qty |-> 0, actual_demo_qty |-> demo[k]]>>
    ELSE <<>>

RECURSIVE LiveDiscrepancies(_, _, _)
LiveDiscrepancies(ks, live, demo) ==
    IF ks = <<>> THEN <<>>
    ELSE (IF live[Head(ks)] > 0 THEN LiveDiscrepancy(Head(ks), live, demo) ELSE <<>>)
         \o LiveDiscrepancies(Tail(ks), live, demo)

RECURSIVE ExtraDiscrepancies(_, _, _)
ExtraDiscrepancies(ks, live, demo) ==
    IF ks = <<>> THEN <<>>
    ELSE (IF demo[Head(ks)] > 0 THEN ExtraDiscrepancy(Head(ks), live, demo) ELSE <<>>)
         \o ExtraDiscrepancies(Tail(ks), live, demo)

(* check_positions_sync(config_data, data_dir, sync_trigger): the new     *)
(* sync_state.json; fetched is FALSE when a position query returned None  *)
check_positions_sync(sync_state, live, demo, fetched) ==
    LET discrepancies == LiveDiscrepancies(KeySeq, live, demo)
                         \o ExtraDiscrepancies(KeySeq, live, demo)
    IN  IF sync_state.waiting_for_reply THEN sync_state
        ELSE IF ~ fetched THEN sync_state
        ELSE IF discrepancies # <<>>
        THEN [sync_state EXCEPT !.waiting_for_reply = TRUE,
                                !.discrepancies = discrepancies]
        ELSE sync_state

(* -------------- check_positions_sync called directly ------------------ *)
(* The reconciler pass on any pair of snapshots, with any buckets pending *)
(* in the aggregator.  harness records the call:                          *)
(*   op               the operation called last                           *)
(*   sync_state       the content of sync_state.json                      *)
(*   pending_actions  what peek_pending_actions gave before the pass      *)
MaxPos == 3          \* largest position size of a snapshot

(*   idx              discrepancies execute_pending_sync_actions is done  *)
(*                    with, 0 outside its loop                            *)
(*   computed         the last check_positions_sync got both snapshots    *)
(*                    and was not waiting for a reply                     *)
SyncHarness(op, sync_state, pending_actions, idx, fetched, computed) ==
    [op |-> op, sync_state |-> sync_state, pending_actions |-> pending_actions,
     idx |-> idx, fetched |-> fetched, computed |-> computed]

PendingChoices ==
    {<<>>}
    \cup {add_fill(<<>>, FillOf(k, 1), 0) : k \in AggKeys}
    \cup {add_fill(add_fill(<<>>, FillOf(k1, 1), 0), FillOf(k2, 1), 0) :
             k1, k2 \in AggKeys}

(* handle_sync_action: the operator's answer to the discrepancy report *)
handle_sync_action(sync_state, action) ==
    IF action = "IGNORE" THEN NoSyncState
    ELSE [sync_state EXCEPT !.waiting_for_reply = FALSE,
                            !.pending_action = "FULL_SYNC"]

(* the order that heals a size mismatch, sized as the expected quantity *)
sync_order_full_size(d) ==
    IF d.type = "extra_on_demo"
    THEN <<[symbol |-> d.symbol, side |-> Opposite(d.side),
            qty |-> d.actual_demo_qty, reduceOnly |-> TRUE]>>
    ELSE IF d.type = "missing_on_demo"
    THEN <<[symbol |-> d.symbol, side |-> d.side,
            qty |-> d.expected_demo_qty, reduceOnly |-> FALSE]>>
    ELSE LET delta == d.expected_demo_qty - d.actual_demo_qty
         IN  IF delta = 0 THEN <<>>
             ELSE <<[symbol |-> d.symbol,
                     side |-> IF delta > 0 THEN d.side ELSE Opposite(d.side),
                     qty |-> d.expected_demo_qty,
                     reduceOnly |-> delta < 0]>>

(* execute_pending_sync_actions, lines 140-161: the parameters of the     *)
(* order for one discrepancy, <<>> when the loop continues without one    *)
sync_order(d) ==
    IF d.type = "extra_on_demo"
    THEN <<[symbol |-> d.symbol, side |-> Opposite(d.side),
            qty |-> d.actual_demo_qty, reduceOnly |-> TRUE]>>
    ELSE IF d.type = "missing_on_demo"
    THEN <<[symbol |-> d.symbol, side |-> d.side,
            qty |-> d.expected_demo_qty, reduceOnly |-> FALSE]>>
    ELSE LET delta == d.expected_demo_qty - d.actual_demo_qty
         IN  IF delta = 0 THEN <<>>
             ELSE <<[symbol |-> d.symbol,
                     side |-> IF delta > 0 THEN d.side ELSE Opposite(d.side),
                     qty |-> IF delta > 0 THEN delta ELSE 0 - delta,
                     reduceOnly |-> delta < 0]>>

SyncInit ==
    /\ live_fills = <<>>
    /\ live_positions \in [Keys -> 0..MaxPos]
    /\ demo_positions \in [Keys -> 0..MaxPos]
    /\ state = [last_processed_exec_id |-> None,
                position_map |-> {k \in Keys : demo_positions[k] > 0}]
    /\ file = save(state)
    /\ pending_orders \in PendingChoices
    /\ ready_orders = <<>>
    /\ order_idx = 0
    /\ last_id_to_commit = None
    /\ inactive_cycles_counter = MIN_INACTIVE_CYCLES_FOR_SYNC
    /\ activity_detected = FALSE
    /\ new_last_id = None
    /\ isync = NoISync
    /\ now = 0
    /\ pc = "unit"
    /\ restarts = 0
    /\ exit_cause = "none"
    /\ last_order = NoOrder
    /\ harness = SyncHarness("init", NoSyncState, <<>>, 0, FALSE, FALSE)

syncRest == <<live_fills, live_positions, file, state, pending_orders,
              ready_orders, order_idx, last_id_to_commit,
              inactive_cycles_counter, activity_detected, new_last_id, isync,
              now, pc, restarts, exit_cause>>

(* copyer.py lines 247-251 followed by the body of check_positions_sync   *)
SyncCheck ==
    /\ harness.idx = 0
    /\ \E fetched \in BOOLEAN :
          harness' = SyncHarness("check_positions_sync",
                        check_positions_sync(harness.sync_state, live_positions,
                                             demo_positions, fetched),
                        peek_pending_actions(pending_orders, now), 0,
                        fetched,
                        fetched /\ ~ harness.sync_state.waiting_for_reply)
    /\ UNCHANGED <<syncRest, demo_positions, last_order>>

(* the operator answers the report: handle_sync_action *)
SyncHandleAction ==
    /\ harness.idx = 0
    /\ harness.sync_state.waiting_for_reply
    /\ \E action \in {"IGNORE", "FULL_SYNC"} :
          harness' = [harness EXCEPT
                         !.op = "handle_sync_action",
                         !.sync_state = handle_sync_action(@, action),
                         !.fetched = FALSE, !.computed = FALSE]
    /\ UNCHANGED <<syncRest, demo_positions, last_order>>

(* execute_pending_sync_actions, lines 134-167: one iteration of the loop *)
(* over the discrepancies; an exception of place_order_on_demo is caught  *)
(* inside the loop                                                        *)
SyncHealStep ==
    /\ harness.sync_state.pending_action = "FULL_SYNC"
    /\ ~ harness.sync_state.waiting_for_reply
    /\ harness.idx < Len(harness.sync_state.discrepancies)
    /\ LET d == harness.sync_state.discrepancies[harness.idx + 1]
           o == sync_order(d)
       IN  IF o = <<>>
           THEN /\ last_order' = NoOrder
                /\ UNCHANGED demo_positions
           ELSE \E ok \in BOOLEAN :
                   /\ ok => VenueCanAccept(demo_positions, o[1])
                   /\ demo_positions' = IF ok THEN VenueApply(demo_positions, o[1])
                                        ELSE demo_positions
                   /\ last_order' = OrderRecord(o[1], ok)
    /\ harness' = [harness EXCEPT !.op = "execute_pending_sync_actions",
                                  !.idx = @ + 1, !.fetched = FALSE, !.computed = FALSE]
    /\ UNCHANGED syncRest

(* execute_pending_sync_actions, lines 169-172 *)
SyncHealFinish ==
    /\ harness.sync_state.pending_action = "FULL_SYNC"
    /\ ~ harness.sync_state.waiting_for_reply
    /\ harness.idx = Len(harness.sync_state.discrepancies)
    /\ harness' = [harness EXCEPT !.op = "sync_finished",
                                  !.sync_state = NoSyncState,
                                  !.idx = 0, !.fetched = FALSE, !.computed = FALSE]
    /\ UNCHANGED <<syncRest, demo_positions, last_order>>

SyncNext ==
    \/ SyncCheck
    \/ SyncHandleAction
    \/ SyncHealStep
    \/ SyncHealFinish

SyncSpec == SyncInit /\ [][SyncNext]_vars

(* ------------------ main_event_loop called directly ------------------- *)
(* One poll of the main loop on any execution history and any cursor the  *)
(* state store can hold, followed by the end of the cycle that saves the  *)
(* cursor candidate.  harness records the call:                           *)
(*   op             the operation called last                             *)
(*   fetched        FALSE when get_data returned None                     *)
(*   result         what main_event_loop returned                         *)
(*   last_known_id  the cursor the call started from                      *)
MaxHistory == 5      \* executions in the source account's history

FillKinds ==
    { [symbol |-> "BTCUSDT", side |-> "Buy", execQty |-> 2, closedSize |-> 0,
       execType |-> "Trade"],
      [symbol |-> "BTCUSDT", side |-> "Sell", execQty |-> 3, closedSize |-> 0,
       execType |-> "Trade"],
      [symbol |-> "BTCUSDT", side |-> "Sell", execQty |-> 2, closedSize |-> 2,
       execType |-> "Trade"],
      [symbol |-> "BTCUSDT", side |-> "Buy", execQty |-> 1, closedSize |-> 0,
       execType |-> "Trade"],
      [symbol |-> "BTCUSDT", side |-> "Buy", execQty |-> 1, closedSize |-> 0,
       execType |-> "Funding"] }

(* the histories of n executions, execId = position, oldest first *)
Histories(n) ==
    { [i \in 1..n |-> [execId |-> i, symbol |-> f[i].symbol, side |-> f[i].side,
                       execQty |-> f[i].execQty, closedSize |-> f[i].closedSize,
                       execType |-> f[i].execType]] : f \in [1..n -> FillKinds] }

QuietResult(po) ==
    [activity_detected |-> FALSE, last_id_to_save |-> None,
     processed |-> <<>>, pending_orders |-> po]

PollHarness(op, fetched, result, last_known_id) ==
    [op |-> op, fetched |-> fetched, result |-> result,
     last_known_id |-> last_known_id]

PollInit ==
    /\ live_fills \in UNION {Histories(n) : n \in 0..MaxHistory}
    /\ live_positions = ZeroPositions
    /\ demo_positions = ZeroPositions
    /\ \E c \in {None} \cup (1..Len(live_fills)),
          m \in {{}, {<<"BTCUSDT", "Buy">>}, Keys} :
          state = [last_processed_exec_id |-> c, position_map |-> m]
    /\ file = save(state)
    /\ pending_orders = <<>>
    /\ ready_orders = <<>>
    /\ order_idx = 0
    /\ last_id_to_commit = None
    /\ inactive_cycles_counter = 0
    /\ activity_detected = FALSE
    /\ new_last_id = None
    /\ isync = NoISync
    /\ now = 0
    /\ pc = "unit"
    /\ restarts = 0
    /\ exit_cause = "none"
    /\ last_order = NoOrder
    /\ harness = PollHarness("init", TRUE, QuietResult(<<>>), None)

(* copyer.py lines 219-233 *)
PollCall ==
    /\ harness.op # "main_event_loop"
    /\ \E fetched \in BOOLEAN :
          LET r == main_event_loop(state, pending_orders, live_fills, fetched, now)
          IN  /\ activity_detected' = r.activity_detected
              /\ new_last_id' = r.last_id_to_save
              /\ pending_orders' = r.pending_orders
              /\ last_id_to_commit' =
                    IF r.last_id_to_save # None THEN r.last_id_to_save
                    ELSE last_id_to_commit
              /\ harness' = PollHarness("main_event_loop", fetched, r,
                                        state.last_processed_exec_id)
    /\ UNCHANGED <<live_fills, live_positions, demo_positions, file, state,
                   ready_orders, order_idx, inactive_cycles_counter, isync,
                   now, pc, restarts, exit_cause, last_order>>

(* copyer.py lines 236 and 276-283: the buckets are drained after the     *)
(* wait for the aggregation window and the cursor candidate is saved      *)
PollCommit ==
    /\ harness.op = "main_event_loop"
    /\ LET saved == set_last_id(state, file, last_id_to_commit)
       IN  IF last_id_to_commit # None
           THEN /\ state' = saved[1]
                /\ file' = saved[2]
           ELSE UNCHANGED <<state, file>>
    /\ last_id_to_commit' = None
    /\ pending_orders' =
          get_ready_orders(pending_orders, now + aggregation_window_seconds + 1)[2]
    /\ harness' = [harness EXCEPT !.op = "commit"]
    /\ UNCHANGED <<live_fills, live_positions, demo_positions, ready_orders,
                   order_idx, inactive_cycles_counter, activity_detected,
                   new_last_id, isync, now, pc, restarts, exit_cause, last_order>>

PollNext ==
    \/ PollCall
    \/ PollCommit

PollSpec == PollInit /\ [][PollNext]_vars

(* ------------------- the StateManager called directly ----------------- *)
(* Every operation of the class in any order with any argument, a process *)
(* that stops in the middle of a save, and a new StateManager on the same *)
(* directory.  harness records the calls:                                 *)
(*   op           the operation called last                               *)
(*   key          its (symbol, side), NoKey for the others                *)
(*   before       the state before the latest set_last_id, map_position   *)
(*                or remove_mapping                                       *)
(*   file_before  the file before that call                               *)
(*   after        the state that call was to leave                        *)
(*   crashed      the process stopped inside the save of that call        *)
MaxExecId == 2       \* execution ids handed to set_last_id

NoKey == <<"", "">>

(* StateManager(data_dir): __init__ and load *)
new_StateManager(f) == IF f.exists THEN load(f) ELSE EmptyState

StoreHarness(op, key, before, file_before, after, crashed) ==
    [op |-> op, key |-> key, before |-> before, file_before |-> file_before,
     after |-> after, crashed |-> crashed]

StoreInit ==
    /\ live_fills = <<>>
    /\ live_positions = ZeroPositions
    /\ demo_positions = ZeroPositions
    /\ file = NoFile
    /\ state = new_StateManager(NoFile)
    /\ pending_orders = <<>>
    /\ ready_orders = <<>>
    /\ order_idx = 0
    /\ last_id_to_commit = None
    /\ inactive_cycles_counter = 0
    /\ activity_detected = FALSE
    /\ new_last_id = None
    /\ isync = NoISync
    /\ now = 0
    /\ pc = "unit"
    /\ restarts = 0
    /\ exit_cause = "none"
    /\ last_order = NoOrder
    /\ harness = StoreHarness("init", NoKey, EmptyState, NoFile, EmptyState, FALSE)

storeRest == <<live_fills, live_positions, demo_positions, pending_orders,
               ready_orders, order_idx, last_id_to_commit,
               inactive_cycles_counter, activity_detected, new_last_id, isync,
               now, restarts, exit_cause, last_order>>

(* the calls that end in save(), as <<op, key, <<state, file>>>> *)
SavingCalls(st, f) ==
    {<<"set_last_id", NoKey, set_last_id(st, f, id)>> : id \in 1..MaxExecId}
    \cup {<<"map_position", k, map_position(st, f, k[1], k[2])>> :
             k \in {j \in Keys : ~ is_position_mapped(st, j[1], j[2])}}
    \cup {<<"remove_mapping", k, remove_mapping(st, f, k[1], k[2])>> :
             k \in {j \in Keys : is_position_mapped(st, j[1], j[2])}}

StoreSetLastId ==
    /\ pc = "unit"
    /\ \E id \in 1..MaxExecId :
          LET r == set_last_id(state, file, id)
          IN  /\ state' = r[1]
              /\ file' = r[2]
              /\ harness' = StoreHarness("set_last_id", NoKey, state, file,
                                         r[1], FALSE)
    /\ UNCHANGED <<storeRest, pc>>

StoreMapPosition ==
    /\ pc = "unit"
    /\ \E k \in Keys :
          LET r == map_position(state, file, k[1], k[2])
          IN  /\ state' = r[1]
              /\ file' = r[2]
              /\ harness' = StoreHarness("map_position", k, state, file,
                                         r[1], FALSE)
    /\ UNCHANGED <<storeRest, pc>>

StoreRemoveMapping ==
    /\ pc = "unit"
    /\ \E k \in Keys :
          LET r == remove_mapping(state, file, k[1], k[2])
          IN  /\ state' = r[1]
              /\ file' = r[2]
              /\ harness' = StoreHarness("remove_mapping", k, state, file,
                                         r[1], FALSE)
    /\ UNCHANGED <<storeRest, pc>>

(* the process stops inside save(), state_manager.py lines 41-44: before  *)
(* open(..., 'w'), between open and the end of json.dump, or after it     *)
StoreCrashInSave ==
    /\ pc = "unit"
    /\ \E c \in SavingCalls(state, file) :
          /\ state' = c[3][1]
          /\ file' \in {file, save_interrupted(c[3][1]), save(c[3][1])}
          /\ harness' = StoreHarness(c[1], c[2], state, file, c[3][1], TRUE)
    /\ pc' = "dead"
    /\ UNCHANGED storeRest

(* a new StateManager on the same directory, in a new process or not *)
StoreReload ==
    /\ state' = new_StateManager(file)
    /\ pc' = "unit"
    /\ harness' = [harness EXCEPT !.op = "reload"]
    /\ UNCHANGED <<storeRest, file>>

StoreNext ==
    \/ StoreSetLastId
    \/ StoreMapPosition
    \/ StoreRemoveMapping
    \/ StoreCrashInSave
    \/ StoreReload

StoreSpec == StoreInit /\ [][StoreNext]_vars

(* ---------------------- the stop-loss calculator ---------------------- *)
(* check_and_set_sl called directly on one destination position.  Prices  *)
(* are integers in units of the instrument's tickSize, loss tiers in      *)
(* units of tickSize x quantity step; size is in quantity steps.          *)

MaxEntry == 3
MaxSize == 2
MaxTier == 5
MaxTiers == 2

(* Decimal.quantize(Decimal('1'), ROUND_DOWN) of n/d: towards zero *)
ROUND_DOWN(n, d) == IF n >= 0 THEN n \div d ELSE 0 - ((0 - n) \div d)

(* Decimal.quantize(Decimal('1'), ROUND_UP) of n/d: away from zero *)
ROUND_UP(n, d) ==
    IF n >= 0 THEN (n + d - 1) \div d ELSE 0 - (((0 - n) + d - 1) \div d)

(* config_loader: sl_loss_tiers_usd is sorted in descending order *)
SortedTiers ==
    {tiers \in UNION {[1..n -> 1..MaxTier] : n \in 0..MaxTiers} :
        \A i \in 1..(Len(tiers) - 1) : tiers[i] >= tiers[i + 1]}

(* the answers of /v5/position/trading-stop the venue can give *)
Replies == {"ok", "too_close", "not_modified", "rejected"}

RetCodeOf(reply) ==
    CASE reply = "ok" -> 0
      [] reply = "too_close" -> 110043
      [] reply = "not_modified" -> 34040
      [] OTHER -> 10002

(* make_api_request: the response is returned when retCode is 0 and       *)
(* APIException is raised for every other retCode                         *)
make_api_request(reply) ==
    [raised |-> RetCodeOf(reply) # 0, retCode |-> RetCodeOf(reply)]

(* check_and_set_sl, lines 81-85: the candidate of one tier *)
new_sl_price_quantized_wrong_side(side, entry_price, size, tier) ==
    IF side = "Buy" THEN ROUND_UP(entry_price * size + tier, size)
    ELSE ROUND_DOWN(entry_price * size - tier, size)

new_sl_price_quantized(side, entry_price, size, tier) ==
    IF side = "Buy" THEN ROUND_DOWN(entry_price * size - tier, size)
    ELSE ROUND_UP(entry_price * size + tier, size)

(* check_and_set_sl, lines 67-74: the existing stop is at most 1.1 times  *)
(* the widest tier away from the entry price                              *)
current_sl_adequate(position, tiers) ==
    /\ position.stopLoss > 0
    /\ LET dist == IF position.avgPrice >= position.stopLoss
                   THEN position.avgPrice - position.stopLoss
                   ELSE position.stopLoss - position.avgPrice
       IN  10 * position.size * dist <= 11 * tiers[1]

NoSlResult(position, attempts, logged) ==
    [event |-> <<>>, attempts |-> attempts, logged |-> logged,
     stopLoss |-> position.stopLoss]

(* check_and_set_sl, lines 80-108: the loop over the tiers from tier i on *)
RECURSIVE sl_tier_loop(_, _, _, _, _)
sl_tier_loop_stops_at_zero(position, tiers, replies, i, attempts) ==
    IF i > Len(tiers) THEN NoSlResult(position, attempts, FALSE)
    ELSE
    LET price == new_sl_price_quantized(position.side, position.avgPrice,
                                        position.size, tiers[i])
        response == make_api_request(replies[i])
        tried == Append(attempts, [tier |-> tiers[i], stopLoss |-> price])
    IN  IF price <= 0
        THEN NoSlResult(position, attempts, FALSE)
        ELSE IF price = position.stopLoss
        THEN sl_tier_loop(position, tiers, replies, i + 1, attempts)
        ELSE IF response.raised
        THEN NoSlResult(position, tried, TRUE)
        ELSE IF response.retCode = 0
        THEN [event |-> <<[symbol |-> position.symbol, side |-> position.side,
                           pnl_value |-> tiers[i]]>>,
              attempts |-> tried, logged |-> FALSE, stopLoss |-> price]
        ELSE IF response.retCode = 34040
        THEN NoSlResult(position, tried, FALSE)
        ELSE IF response.retCode \in {110043, 10001}
        THEN sl_tier_loop(position, tiers, replies, i + 1, tried)
        ELSE NoSlResult(position, tried, TRUE)

sl_tier_loop(position, tiers, replies, i, attempts) ==
    IF i > Len(tiers) THEN NoSlResult(position, attempts, FALSE)
    ELSE
    LET price == new_sl_price_quantized(position.side, position.avgPrice,
                                        position.size, tiers[i])
        response == make_api_request(replies[i])
        tried == Append(attempts, [tier |-> tiers[i], stopLoss |-> price])
    IN  IF price <= 0
        THEN sl_tier_loop(position, tiers, replies, i + 1, attempts)
        ELSE IF price = position.stopLoss
        THEN sl_tier_loop(position, tiers, replies, i + 1, attempts)
        ELSE IF response.raised
        THEN NoSlResult(position, tried, TRUE)
        ELSE IF response.retCode = 0
        THEN [event |-> <<[symbol |-> position.symbol, side |-> position.side,
                           pnl_value |-> tiers[i]]>>,
              attempts |-> tried, logged |-> FALSE, stopLoss |-> price]
        ELSE IF response.retCode = 34040
        THEN NoSlResult(position, tried, FALSE)
        ELSE IF response.retCode \in {110043, 10001}
        THEN sl_tier_loop(position, tiers, replies, i + 1, tried)
        ELSE NoSlResult(position, tried, TRUE)

(* check_and_set_sl: None is the result with no event; `logged` tells     *)
(* whether logger.error was called, `attempts` lists the stop prices sent *)
(* to the venue and `stopLoss` is the position's stop after the call      *)
check_and_set_sl(position, tiers, info, replies) ==
    IF position.size <= 0 \/ tiers = <<>>
    THEN NoSlResult(position, <<>>, FALSE)
    ELSE IF current_sl_adequate(position, tiers)
    THEN NoSlResult(position, <<>>, FALSE)
    ELSE IF ~ info
    THEN NoSlResult(position, <<>>, FALSE)
    ELSE sl_tier_loop(position, tiers, replies, 1, <<>>)

(* main, lines 266-268: the event the cycle keeps from the call *)
sl_cycle_events(result) ==
    IF result.event # <<>> THEN <<[type |-> "sl", data |-> result.event[1]]>>
    ELSE <<>>

(* the destination positions main hands over: size > 0 (line 265) *)
SlPositions ==
    [symbol : Symbols, side : Sides, size : 1..MaxSize,
     avgPrice : 1..MaxEntry, stopLoss : 0..(MaxEntry + MaxTier)]

SlHarness(op, position, tiers, info, replies, result, cycle_events) ==
    [op |-> op, position |-> position, tiers |-> tiers, info |-> info,
     replies |-> replies, result |-> result, cycle_events |-> cycle_events,
     candidates |-> <<>>, sl_prices |-> <<>>]

(* Trader.py, calculate_sl_price: the price change is quantized towards   *)
(* zero before it is applied; 0 stands for the None of lines 67-69        *)
calculate_sl_price(entry_price, quantity, side, loss_usd) ==
    LET price_change == ROUND_DOWN(loss_usd, quantity)
        sl_price == IF side = "Buy" THEN entry_price - price_change
                    ELSE entry_price + price_change
    IN  IF sl_price <= 0 THEN 0 ELSE sl_price

SlPricesOf(position, tiers) ==
    [i \in 1..Len(tiers) |->
        calculate_sl_price(position.avgPrice, position.size, position.side,
                           tiers[i])]

(* the candidates of lines 81-85 for every tier of the list *)
CandidatesOf(position, tiers) ==
    [i \in 1..Len(tiers) |->
        new_sl_price_quantized(position.side, position.avgPrice,
                               position.size, tiers[i])]

SlInit ==
    /\ RestInit
    /\ pending_orders = <<>>
    /\ now = 0
    /\ \E position \in SlPositions, tiers \in SortedTiers, info \in BOOLEAN :
          \E replies \in [1..Len(tiers) -> Replies] :
             harness = SlHarness("position", position, tiers, info, replies,
                                 NoSlResult(position, <<>>, FALSE), <<>>)

(* main, lines 264-269: one iteration of the loop over the positions *)
SlCall ==
    /\ harness.op = "position"
    /\ LET result == check_and_set_sl(harness.position, harness.tiers,
                                      harness.info, harness.replies)
       IN  harness' = [harness EXCEPT !.op = "check_and_set_sl",
                                      !.result = result,
                                      !.cycle_events = sl_cycle_events(result),
                                      !.candidates =
                                          CandidatesOf(harness.position,
                                                       harness.tiers),
                                      !.sl_prices =
                                          SlPricesOf(harness.position,
                                                     harness.tiers)]
    /\ UNCHANGED <<restVars, pending_orders, now>>

SlNext == SlCall

SlSpec == SlInit /\ [][SlNext]_vars

(* ------------------ process_aggregated_orders, directly --------------- *)
(* One batch of aggregated actions executed against a destination account *)
(* in one-way or in hedge mode; the harness records the requests of the   *)
(* latest iteration and the events appended so far.                       *)

AccountModes == {"Oneway", "Hedge"}

(* order_handler._determine_position_idx *)
determine_position_idx(demo_mode, side) ==
    IF demo_mode = "Hedge" THEN (IF side = "Buy" THEN 1 ELSE 2) ELSE 0

(* the request whose position index follows the order's own side *)
ExecParams_order_side(demo_mode, order) ==
    [symbol |-> order.symbol, side |-> order.side, qty |-> order.qty,
     reduceOnly |-> (order.action = "CLOSE"),
     positionIdx |-> determine_position_idx(demo_mode, order.side)]

(* process_aggregated_orders, lines 75-76 and 85-87: the request body *)
ExecParams(demo_mode, order) ==
    [symbol |-> order.symbol, side |-> order.side, qty |-> order.qty,
     reduceOnly |-> (order.action = "CLOSE"),
     positionIdx |-> determine_position_idx(demo_mode,
                        IF order.action = "OPEN" THEN order.side
                        ELSE order.position_side_for_close)]

(* the position a request acts on: the one its positionIdx names in hedge *)
(* mode; in one-way mode the position a reduce-only order can reduce      *)
PositionOfIdx(params) ==
    <<params.symbol,
      CASE params.positionIdx = 1 -> "Buy"
        [] params.positionIdx = 2 -> "Sell"
        [] OTHER -> IF params.reduceOnly THEN Opposite(params.side)
                    ELSE params.side>>

(* /v5/order/create answers retCode 0 only for a positive quantity; a     *)
(* reduce-only order needs a position to reduce, and in hedge mode the    *)
(* order's side has to fit the position the index names                   *)
VenueCanAcceptIdx(dp, params) ==
    /\ params.qty > 0
    /\ params.reduceOnly => dp[PositionOfIdx(params)] > 0
    /\ params.positionIdx # 0 =>
          PositionOfIdx(params)[2] =
             (IF params.reduceOnly THEN Opposite(params.side) ELSE params.side)

(* the destination positions after the accepted request; in one-way mode  *)
(* an order that is not reduce-only is netted against the opposite side   *)
VenueApplyIdx(dp, params) ==
    LET k == PositionOfIdx(params)
        opp == <<params.symbol, Opposite(params.side)>>
    IN  IF params.reduceOnly
        THEN [dp EXCEPT ![k] = @ - Min(params.qty, @)]
        ELSE IF params.positionIdx = 0 /\ dp[opp] > 0
        THEN IF dp[opp] >= params.qty
             THEN [dp EXCEPT ![opp] = @ - params.qty]
             ELSE [dp EXCEPT ![opp] = 0, ![k] = @ + params.qty - dp[opp]]
        ELSE [dp EXCEPT ![k] = @ + params.qty]

(* the two requests an iteration can send *)
LeverageCall(symbol) ==
    [endpoint |-> "/v5/position/set-leverage", symbol |-> symbol, side |-> "",
     qty |-> 0, reduceOnly |-> FALSE, positionIdx |-> 0]

OrderCall(params) ==
    [endpoint |-> "/v5/order/create", symbol |-> params.symbol,
     side |-> params.side, qty |-> params.qty,
     reduceOnly |-> params.reduceOnly, positionIdx |-> params.positionIdx]

(* process_aggregated_orders, lines 82 and 93: the event of one order *)
ExecEvent(order) ==
    [type |-> IF order.action = "OPEN" THEN "open" ELSE "close",
     symbol |-> order.symbol,
     side |-> IF order.action = "OPEN" THEN order.side
              ELSE order.position_side_for_close,
     qty |-> order.qty]

ExecHarness(op, demo_mode, calls, cycle_events, raised) ==
    [op |-> op, demo_mode |-> demo_mode, calls |-> calls,
     cycle_events |-> cycle_events, raised |-> raised]

(* the fills main_event_loop hands to the aggregator when the store is st *)
ExecFills(st) ==
    {fd \in FillData :
        IF fd.action = "CLOSE"
        THEN is_position_mapped(st, fd.symbol, fd.position_side_for_close)
        ELSE fd.is_increase = is_position_mapped(st, fd.symbol, fd.side)}

(* the batches get_ready_orders returns for one or two such fills *)
ExecBatches(st) ==
    {MapOrders(add_fill(<<>>, f, 0)) : f \in ExecFills(st)}
    \cup {MapOrders(add_fill(add_fill(<<>>, f1, 0), f2, 0)) :
             f1, f2 \in ExecFills(st)}

ExecInit ==
    /\ live_fills = <<>>
    /\ live_positions = ZeroPositions
    /\ \E demo_mode \in AccountModes :
          /\ harness = ExecHarness("init", demo_mode, <<>>, <<>>, FALSE)
          /\ demo_positions \in [Keys -> 0..MaxPos]
          /\ demo_mode = "Oneway" =>
                \A sym \in Symbols :
                   demo_positions[<<sym, "Buy">>] = 0
                   \/ demo_positions[<<sym, "Sell">>] = 0
    /\ state = [last_processed_exec_id |-> None,
                position_map |-> {k \in Keys : demo_positions[k] > 0}]
    /\ file = save(state)
    /\ pending_orders = <<>>
    /\ ready_orders \in ExecBatches(state)
    /\ order_idx = 1
    /\ last_id_to_commit = None
    /\ inactive_cycles_counter = 0
    /\ activity_detected = TRUE
    /\ new_last_id = None
    /\ isync = NoISync
    /\ now = 0
    /\ pc = "unit"
    /\ restarts = 0
    /\ exit_cause = "none"
    /\ last_order = NoOrder

execRest == <<live_fills, live_positions, pending_orders, ready_orders,
              last_id_to_commit, inactive_cycles_counter, activity_detected,
              new_last_id, isync, now, pc, restarts, exit_cause>>

(* process_aggregated_orders, lines 46-95: one iteration of the loop.     *)
(*   live_fetched  get_data returned the source position (line 69)        *)
(*   lev_ok        set_leverage_on_demo returned, it raises otherwise     *)
(*   ok            place_order_on_demo returned True, it raises otherwise *)
(*   pnl_ok        get_pnl_update_after_close returned                    *)
ExecStep ==
    /\ order_idx >= 1
    /\ order_idx <= Len(ready_orders)
    /\ ~ harness.raised
    /\ LET order == ready_orders[order_idx]
           params == ExecParams(harness.demo_mode, order)
           wants_leverage == order.action = "OPEN" /\ ~ order.is_increase
           after == StateAfterOrder(state, file, order)
       IN  IF order.qty <= 0
           THEN /\ harness' = [harness EXCEPT !.op = "skipped", !.calls = <<>>]
                /\ order_idx' = order_idx + 1
                /\ UNCHANGED <<demo_positions, state, file, last_order>>
           ELSE \E live_fetched, lev_ok, ok, pnl_ok \in BOOLEAN :
             LET lev_called == wants_leverage /\ live_fetched
                 lev == IF lev_called THEN <<LeverageCall(order.symbol)>>
                        ELSE <<>>
                 sent == lev \o <<OrderCall(params)>>
             IN  /\ ~ wants_leverage => live_fetched
                 /\ ~ lev_called => lev_ok
                 /\ ~ lev_ok => ok
                 /\ (~ ok \/ ~ lev_ok \/ order.action = "OPEN") => pnl_ok
                 /\ (ok /\ lev_ok) => VenueCanAcceptIdx(demo_positions, params)
                 /\ IF ~ lev_ok
                    THEN /\ harness' = [harness EXCEPT !.op = "raised",
                                           !.calls = lev, !.raised = TRUE]
                         /\ UNCHANGED <<demo_positions, state, file,
                                        last_order, order_idx>>
                    ELSE IF ~ ok
                    THEN /\ harness' = [harness EXCEPT !.op = "raised",
                                           !.calls = sent, !.raised = TRUE]
                         /\ last_order' = OrderRecord(params, FALSE)
                         /\ UNCHANGED <<demo_positions, state, file, order_idx>>
                    ELSE /\ demo_positions' = VenueApplyIdx(demo_positions, params)
                         /\ last_order' = OrderRecord(params, TRUE)
                         /\ state' = after[1]
                         /\ file' = after[2]
                         /\ IF pnl_ok
                            THEN /\ harness' = [harness EXCEPT
                                       !.op = order.action,
                                       !.calls = sent,
                                       !.cycle_events = Append(@, ExecEvent(order))]
                                 /\ order_idx' = order_idx + 1
                            ELSE /\ harness' = [harness EXCEPT !.op = "raised",
                                       !.calls = sent, !.raised = TRUE]
                                 /\ UNCHANGED order_idx
    /\ UNCHANGED execRest

ExecNext == ExecStep

ExecSpec == ExecInit /\ [][ExecNext]_vars

(* ------------------- api_handler.make_api_request --------------------- *)
(* one request seen with its HTTP outcome: what session.get/post does,    *)
(* the status code of the response, what response.json() does and the     *)
(* retCode of the body (NoRetCode when the body has none)                 *)
MaxCalls == 2
Methods == {"GET", "POST"}
SessionFailures == {"Timeout", "ConnectionError", "RequestException", "Exception"}
HttpStatuses == {200, 400, 401, 429, 500}
JsonFailures == {"RequestsJSONDecodeError", "JSONDecodeError"}
NoRetCode == 0 - 1
RetCodes == {0, 10001, 10003, 10006, NoRetCode}

HttpReply(failure, status_code, json, retCode) ==
    [failure |-> failure, status_code |-> status_code, json |-> json,
     retCode |-> retCode]

HttpReplies ==
    {HttpReply(f, 0, "none", NoRetCode) : f \in SessionFailures}
    \cup {HttpReply("none", sc, "none", NoRetCode) : sc \in HttpStatuses \ {200}}
    \cup {HttpReply("none", 200, j, NoRetCode) : j \in JsonFailures}
    \cup {HttpReply("none", 200, "ok", rc) : rc \in RetCodes}

APIExceptions == {"APIException", "APIAuthenticationError", "APIRateLimitError",
                  "APINetworkError"}

(* make_api_request, lines 172-237: the exception that leaves the body of *)
(* the try statement, "none" when the body reaches 'return response_json' *)
try_body(r) ==
    IF r.failure # "none" THEN r.failure
    ELSE IF r.status_code = 429 THEN "APIRateLimitError"
    ELSE IF r.status_code = 401 THEN "APIAuthenticationError"
    ELSE IF r.status_code >= 500 THEN "APINetworkError"
    ELSE IF r.status_code >= 400 THEN "RequestException"
    ELSE IF r.json # "ok" THEN r.json
    ELSE LET ret_code == r.retCode
         IN  IF ret_code # 0
             THEN IF ret_code \in {10003, 10004} THEN "APIAuthenticationError"
                  ELSE IF ret_code = 10006 THEN "APIRateLimitError"
                  ELSE "APIException"
             ELSE "none"

(* make_api_request, lines 239-253: the except clauses in their order;    *)
(* the exception classes of api_handler derive from Exception only, so    *)
(* those raised inside the try statement reach the last clause            *)
except_clauses(exc) ==
    CASE exc = "Timeout" -> "APINetworkError"
      [] exc = "ConnectionError" -> "APINetworkError"
      [] exc \in {"RequestException", "RequestsJSONDecodeError"} -> "APINetworkError"
      [] exc = "JSONDecodeError" -> "APIException"
      [] OTHER -> "APIException"

(* the outcome of one call of make_api_request: the class of the          *)
(* exception that reaches the caller ("none" when the response returns)   *)
(* and the retCode of the returned response                               *)
make_api_request_outcome(r) ==
    LET exc == try_body(r)
    IN  IF exc = "none"
        THEN [raised |-> "none", returned |-> TRUE, retCode |-> r.retCode]
        ELSE [raised |-> except_clauses(exc), returned |-> FALSE,
              retCode |-> NoRetCode]

ApiHarness(op, method, reply, outcome, calls) ==
    [op |-> op, method |-> method, reply |-> reply, outcome |-> outcome,
     calls |-> calls]

ApiInit ==
    /\ RestInit
    /\ pending_orders = <<>>
    /\ now = 0
    /\ harness = ApiHarness("init", "GET", HttpReply("none", 200, "ok", 0),
                            make_api_request_outcome(HttpReply("none", 200, "ok", 0)),
                            <<>>)

(* one call of make_api_request; calls lists what the earlier calls raised *)
ApiCall ==
    /\ Len(harness.calls) < MaxCalls
    /\ \E method \in Methods, r \in HttpReplies :
          harness' = ApiHarness("make_api_request", method, r,
                                make_api_request_outcome(r),
                                IF harness.op = "init" THEN <<>>
                                ELSE Append(harness.calls, harness.outcome.raised))
    /\ UNCHANGED <<pending_orders, now, restVars>>

ApiNext == ApiCall

ApiSpec == ApiInit /\ [][ApiNext]_vars

(* ---------------- main_event_loop: one fill classified ---------------- *)
(* the fills of the execution list: Trade and Funding executions of the   *)
(* copied symbol and of a symbol outside the copy list                    *)
ClassifyFills ==
    { [execId |-> 1, symbol |-> sym, side |-> sd, execQty |-> q,
       closedSize |-> c, execType |-> ty] :
         sym \in Symbols \cup {OtherSymbol}, sd \in Sides,
         q \in 1..(MaxFillQty + 1), c \in 0..MaxFillQty,
         ty \in {"Trade", "Funding"} }

ClassifyHarness(op, fill, result) ==
    [op |-> op, fill |-> fill, result |-> result]

ClassifyInit ==
    /\ RestInit
    /\ pending_orders = <<>>
    /\ now = 0
    /\ harness = ClassifyHarness("init", CHOOSE f \in ClassifyFills : TRUE, <<>>)

(* the store holds some position map when the poll runs (map_position and *)
(* remove_mapping of earlier cycles)                                      *)
ClassifySetMap ==
    /\ harness.op = "init"
    /\ \E m \in SUBSET Keys :
          /\ m # state.position_map
          /\ state' = [state EXCEPT !.position_map = m]
    /\ UNCHANGED <<live_fills, live_positions, demo_positions, file,
                   pending_orders, ready_orders, order_idx, last_id_to_commit,
                   inactive_cycles_counter, activity_detected, new_last_id,
                   isync, now, pc, restarts, exit_cause, last_order, harness>>

(* one pass of the loop body over an empty aggregator *)
ClassifyFill ==
    /\ \E fill \in ClassifyFills :
          harness' = ClassifyHarness("process_fill", fill,
                                     process_fill(<<>>, state, fill, now))
    /\ UNCHANGED <<pending_orders, now, restVars>>

ClassifyNext ==
    \/ ClassifySetMap
    \/ ClassifyFill

ClassifySpec == ClassifyInit /\ [][ClassifyNext]_vars

(* ------------- one aggregation window, polled and executed ------------ *)
(* the number of fills of one aggregation window *)
MaxBatch == 3

(* Trade fills of the copied symbol that open or close two contracts *)
BatchFills ==
    { [execId |-> 1, symbol |-> sym, side |-> sd, execQty |-> 2 * MultDen,
       closedSize |-> c, execType |-> "Trade"] :
         sym \in Symbols, sd \in Sides, c \in {0, 2 * MultDen} }

(* process_aggregated_orders, lines 46-95, over a whole batch when no     *)
(* request fails: <<destination positions, state, file, raised>>; an      *)
(* order the venue cannot accept makes place_order_on_demo raise and ends *)
(* the batch                                                              *)
RECURSIVE process_aggregated_orders(_, _, _, _)
process_aggregated_orders(dp, st, f, orders) ==
    IF orders = <<>> THEN <<dp, st, f, FALSE>>
    ELSE LET order == Head(orders)
             params == OrderParams(order)
             after == StateAfterOrder(st, f, order)
         IN  IF order.qty <= 0
             THEN process_aggregated_orders(dp, st, f, Tail(orders))
             ELSE IF ~ VenueCanAccept(dp, params) THEN <<dp, st, f, TRUE>>
             ELSE process_aggregated_orders(VenueApply(dp, params),
                                            after[1], after[2], Tail(orders))

BatchHarness(op, fills, sequential, seq_raised, raised) ==
    [op |-> op, fills |-> fills, sequential |-> sequential,
     seq_raised |-> seq_raised, raised |-> raised]

BatchInit ==
    /\ live_fills = <<>>
    /\ live_positions = ZeroPositions
    /\ demo_positions \in [Keys -> 0..MaxPos]
    /\ state = [last_processed_exec_id |-> None,
                position_map |-> {k \in Keys : demo_positions[k] > 0}]
    /\ file = save(state)
    /\ pending_orders = <<>>
    /\ ready_orders = <<>>
    /\ order_idx = 0
    /\ last_id_to_commit = None
    /\ inactive_cycles_counter = 0
    /\ activity_detected = FALSE
    /\ new_last_id = None
    /\ isync = NoISync
    /\ now = 0
    /\ pc = "unit"
    /\ restarts = 0
    /\ exit_cause = "none"
    /\ last_order = NoOrder
    /\ harness = BatchHarness("init", <<>>, demo_positions, FALSE, FALSE)

batchRest == <<live_fills, live_positions, order_idx,
               last_id_to_commit, inactive_cycles_counter, activity_detected,
               new_last_id, isync, now, pc, restarts, exit_cause, last_order>>

(* the poller hands the next fill of the window to the aggregator; the    *)
(* harness executes the scaled action of this fill alone on its own copy  *)
(* of the destination positions                                           *)
BatchAddFill ==
    /\ harness.op \in {"init", "add_fill"}
    /\ Len(harness.fills) < MaxBatch
    /\ \E fill \in BatchFills :
          LET alone == process_aggregated_orders(harness.sequential, state, file,
                          MapOrders(process_fill(<<>>, state, fill, now)))
          IN  /\ pending_orders' = process_fill(pending_orders, state, fill, now)
              /\ harness' = BatchHarness("add_fill", Append(harness.fills, fill),
                                         alone[1],
                                         harness.seq_raised \/ alone[4], FALSE)
    /\ UNCHANGED <<demo_positions, state, file, ready_orders, batchRest>>

(* copyer.py lines 234-241: after the wait for the aggregation window the *)
(* buckets are drained and process_aggregated_orders executes them        *)
BatchExecute ==
    /\ harness.op = "add_fill"
    /\ LET r == get_ready_orders(pending_orders,
                                 now + aggregation_window_seconds + 1)
           done == process_aggregated_orders(demo_positions, state, file, r[1])
       IN  /\ ready_orders' = r[1]
           /\ pending_orders' = r[2]
           /\ demo_positions' = done[1]
           /\ state' = done[2]
           /\ file' = done[3]
           /\ harness' = [harness EXCEPT !.op = "process_aggregated_orders",
                                         !.raised = done[4]]
    /\ UNCHANGED batchRest

BatchNext ==
    \/ BatchAddFill
    \/ BatchExecute

BatchSpec == BatchInit /\ [][BatchNext]_vars

(* ------------- the cycle of main for a configured window -------------- *)
(* settings.aggregation_window_seconds ranges over 0..MaxWindow and       *)
(* settings.loop_interval over 1..MaxInterval; MaxCycles cycles are run   *)
MaxWindow == 4
MaxInterval == 2
MaxCycles == 3
MaxWinFills == 2

WinHarness(op, window, interval, cycles) ==
    [op |-> op, aggregation_window_seconds |-> window,
     loop_interval |-> interval, cycles |-> cycles]

WinInit ==
    /\ live_fills \in UNION {Histories(n) : n \in 1..(MaxWinFills + 1)}
    /\ live_positions = ZeroPositions
    /\ demo_positions \in {ZeroPositions, [k \in Keys |-> MaxPos]}
    /\ state = [last_processed_exec_id |-> 1,
                position_map |-> {k \in Keys : demo_positions[k] > 0}]
    /\ file = save(state)
    /\ pending_orders = <<>>
    /\ ready_orders = <<>>
    /\ order_idx = 0
    /\ last_id_to_commit = None
    /\ inactive_cycles_counter = 0
    /\ activity_detected = FALSE
    /\ new_last_id = None
    /\ isync = NoISync
    /\ now = 0
    /\ pc = "unit"
    /\ restarts = 0
    /\ exit_cause = "none"
    /\ last_order = NoOrder
    /\ \E window \in 0..MaxWindow, interval \in 1..MaxInterval :
          harness = WinHarness("init", window, interval, 0)

winRest == <<live_fills, live_positions, order_idx, isync, pc, restarts,
             exit_cause, last_order>>

(* copyer.py lines 219-233: the poll and the wait for the aggregation     *)
WinPoll ==
    /\ harness.op \in {"init", "sleep"}
    /\ \E fetched \in BOOLEAN :
          LET r == main_event_loop(state, pending_orders, live_fills, fetched, now)
          IN  /\ activity_detected' = r.activity_detected
              /\ new_last_id' = r.last_id_to_save
              /\ pending_orders' = r.pending_orders
              /\ now' = IF r.activity_detected
                        THEN now + harness.aggregation_window_seconds + 1
                        ELSE now
              /\ inactive_cycles_counter' =
                    IF r.activity_detected THEN 0 ELSE inactive_cycles_counter + 1
              /\ last_id_to_commit' =
                    IF r.last_id_to_save # None THEN r.last_id_to_save
                    ELSE last_id_to_commit
    /\ harness' = [harness EXCEPT !.op = "main_event_loop"]
    /\ UNCHANGED <<demo_positions, state, file, ready_orders, winRest>>

(* copyer.py lines 236-279: the drain, the orders, the reconciler call    *)
(* (which raises after MIN_INACTIVE_CYCLES_FOR_SYNC idle cycles) and the  *)
(* commit of the cursor                                                   *)
WinDrainCommit ==
    /\ harness.op = "main_event_loop"
    /\ LET r == get_ready_orders(pending_orders, now)
           done == process_aggregated_orders(demo_positions, state, file, r[1])
           counter == IF r[1] # <<>> THEN 0 ELSE inactive_cycles_counter
           raised == done[4] \/ counter >= MIN_INACTIVE_CYCLES_FOR_SYNC
           saved == set_last_id(done[2], done[3], last_id_to_commit)
       IN  /\ ready_orders' = r[1]
           /\ pending_orders' = r[2]
           /\ demo_positions' = done[1]
           /\ inactive_cycles_counter' = counter
           /\ IF raised
              THEN /\ state' = done[2]
                   /\ file' = done[3]
                   /\ harness' = [harness EXCEPT !.op = "raised"]
                   /\ UNCHANGED last_id_to_commit
              ELSE IF last_id_to_commit # None
              THEN /\ state' = saved[1]
                   /\ file' = saved[2]
                   /\ last_id_to_commit' = None
                   /\ harness' = [harness EXCEPT !.op = "set_last_id"]
              ELSE /\ state' = done[2]
                   /\ file' = done[3]
                   /\ harness' = [harness EXCEPT !.op = "cycle_end"]
                   /\ UNCHANGED last_id_to_commit
    /\ UNCHANGED <<activity_detected, new_last_id, now, winRest>>

(* copyer.py lines 281-283 *)
WinSleep ==
    /\ harness.op \in {"set_last_id", "cycle_end"}
    /\ harness.cycles + 1 < MaxCycles
    /\ now' = now + harness.loop_interval
    /\ harness' = [harness EXCEPT !.op = "sleep", !.cycles = @ + 1]
    /\ UNCHANGED <<demo_positions, state, file, pending_orders, ready_orders,
                   last_id_to_commit, inactive_cycles_counter,
                   activity_detected, new_last_id, winRest>>

WinNext ==
    \/ WinPoll
    \/ WinDrainCommit
    \/ WinSleep

WinSpec == WinInit /\ [][WinNext]_vars

(* ------------------------ main.ProcessManager ------------------------- *)
(* the user processes the manager supervises; MaxDeaths caps how often    *)
(* one user's process dies                                                *)
Nicknames == {"user1", "user2"}
MaxDeaths == 5
max_restart_attempts == 3

(* ProcessManager.__init__ plus the bookkeeping of the harness: deaths    *)
(* and restarts count what happened to each user's process                *)
new_ProcessManager ==
    [op |-> "init",
     processes |-> [n \in Nicknames |-> "none"],
     restart_count |-> [n \in Nicknames |-> 0],
     process_status |-> [n \in Nicknames |-> "none"],
     deaths |-> [n \in Nicknames |-> 0],
     restarts |-> [n \in Nicknames |-> 0]]

(* start_user_process(nickname); ok is FALSE when the configuration does  *)
(* not load or Process.start raises: nothing is recorded then             *)
start_user_process(pm, nickname, ok) ==
    IF ok
    THEN [pm EXCEPT !.processes[nickname] = "alive",
                    !.restart_count[nickname] = 0,
                    !.process_status[nickname] = "started"]
    ELSE pm

(* monitor_processes, lines 86-115: the loop body for one process that is *)
(* not alive, shutdown not requested                                      *)
monitor_processes(pm, nickname, ok) ==
    IF pm.restart_count[nickname] < max_restart_attempts
    THEN LET removed == [pm EXCEPT !.processes[nickname] = "none"]
             started == start_user_process(removed, nickname, ok)
         IN  IF ok
             THEN [started EXCEPT !.restart_count[nickname] = @ + 1,
                                  !.restarts[nickname] = @ + 1]
             ELSE started
    ELSE [pm EXCEPT !.processes[nickname] = "none",
                    !.process_status[nickname] = "failed"]

MgrInit ==
    /\ RestInit
    /\ pending_orders = <<>>
    /\ now = 0
    /\ harness = new_ProcessManager

(* main, lines 284-290: the processes of the users are started *)
MgrStart ==
    /\ \E nickname \in Nicknames, ok \in BOOLEAN :
          /\ harness.processes[nickname] = "none"
          /\ harness.process_status[nickname] = "none"
          /\ harness.deaths[nickname] = 0
          /\ harness' = [start_user_process(harness, nickname, ok) EXCEPT
                            !.op = "start_user_process"]
    /\ UNCHANGED <<pending_orders, now, restVars>>

(* a user process ends (safe_run_for_user returns or raises) *)
MgrDie ==
    /\ \E nickname \in Nicknames :
          /\ harness.processes[nickname] = "alive"
          /\ harness.deaths[nickname] < MaxDeaths
          /\ harness' = [harness EXCEPT !.op = "died",
                                        !.processes[nickname] = "dead",
                                        !.deaths[nickname] = @ + 1]
    /\ UNCHANGED <<pending_orders, now, restVars>>

(* the monitor thread finds a process that is not alive *)
MgrMonitor ==
    /\ \E nickname \in Nicknames, ok \in BOOLEAN :
          /\ harness.processes[nickname] = "dead"
          /\ harness' = [monitor_processes(harness, nickname, ok) EXCEPT
                            !.op = "monitor_processes"]
    /\ UNCHANGED <<pending_orders, now, restVars>>

MgrNext ==
    \/ MgrStart
    \/ MgrDie
    \/ MgrMonitor

MgrSpec == MgrInit /\ [][MgrNext]_vars

(* ============================ the claims ============================== *)

Totals(po) ==
    [k \in AggKeys |-> IF KeyIndex(po, k) = 0 THEN 0
                       ELSE po[KeyIndex(po, k)].total_qty]

(* C7: before a bucket is drained its total is the sum of the quantities  *)
(* of all fills added under its key and every key with a fill has exactly *)
(* one bucket; get_ready_orders gives one action per key whose qty is the *)
(* sum of the fills the action was built from; and adding two fills in    *)
(* either order gives the same totals.                                    *)
C7_DrainSumsFills ==
    /\ \A k \in AggKeys :
          /\ harness.log[k] # <<>> => KeyIndex(pending_orders, k) # 0
          /\ Cardinality({i \in 1..Len(pending_orders) :
                              pending_orders[i].key = k}) <= 1
    /\ \A i \in 1..Len(pending_orders) :
          pending_orders[i].total_qty = SumQty(harness.log[pending_orders[i].key])
    /\ harness.op = "get_ready_orders" =>
          /\ \A i \in 1..Len(harness.result) :
                harness.result[i].qty = SumQty(harness.fills[i])
          /\ \A i, j \in 1..Len(harness.result) :
                (/\ harness.result[i].symbol = harness.result[j].symbol
                 /\ harness.result[i].side = harness.result[j].side
                 /\ harness.result[i].action = harness.result[j].action) => i = j
    /\ \A k \in AggKeys, q1, q2 \in 1..MaxFillQty :
          q1 < q2 =>
             Totals(add_fill(add_fill(pending_orders, FillOf(k, q1), now),
                             FillOf(k, q2), now))[k]
             = Totals(add_fill(add_fill(pending_orders, FillOf(k, q2), now),
                               FillOf(k, q1), now))[k]

(* C7 witness: a drain returned an action built from two or more fills *)
C7_Witness ==
    /\ harness.op = "get_ready_orders"
    /\ \E i \in 1..Len(harness.result) :
          /\ Len(harness.fills[i]) >= 2
          /\ harness.result[i].qty = SumQty(harness.fills[i])

(* C8: a call of get_ready_orders returns, in order, exactly the buckets  *)
(* older than the aggregation window, each with its key and total, and    *)
(* leaves exactly the other buckets, unchanged; a key that is added when  *)
(* it has no bucket (never added, or drained) starts a new bucket at the  *)
(* current time holding only that fill.                                   *)
C8_DrainExpiredOnly ==
    [][ /\ harness'.op = "get_ready_orders" =>
              LET old(b) == now - b.timestamp > aggregation_window
                  young(b) == now - b.timestamp <= aggregation_window
                  expired == SelectSeq(pending_orders, old)
              IN  /\ pending_orders' = SelectSeq(pending_orders, young)
                  /\ Len(harness'.result) = Len(expired)
                  /\ \A i \in 1..Len(expired) :
                        /\ harness'.result[i].symbol = expired[i].key[1]
                        /\ harness'.result[i].side = expired[i].key[2]
                        /\ harness'.result[i].action = expired[i].key[3]
                        /\ harness'.result[i].qty = expired[i].total_qty
        /\ harness'.op = "add_fill" =>
              \A k \in AggKeys :
                 (KeyIndex(pending_orders, k) = 0 /\ KeyIndex(pending_orders', k) # 0) =>
                    LET b == pending_orders'[KeyIndex(pending_orders', k)]
                    IN  /\ b.timestamp = now
                        /\ Len(harness'.log[k]) = 1
                        /\ b.total_qty = harness'.log[k][1]
      ]_vars

(* C8 witness: one drain returned a bucket and left a younger one *)
C8_Witness ==
    /\ harness.op = "get_ready_orders"
    /\ harness.result # <<>>
    /\ pending_orders # <<>>

(* the entry peek_pending_actions is to report for bucket b *)
ExpectedPeek(b) ==
    [symbol |-> b.key[1],
     side |-> IF b.key[3] = "CLOSE" THEN b.position_side_for_close ELSE b.key[2],
     action |-> b.key[3]]

(* C9 as stated: peek_pending_actions reports every bucket that has been  *)
(* added and not yet drained.                                             *)
C9_PeekReportsEveryBucket ==
    harness.op = "peek_pending_actions" =>
        /\ Len(harness.result) = Len(pending_orders)
        /\ \A i \in 1..Len(pending_orders) :
              harness.result[i] = ExpectedPeek(pending_orders[i])

(* C9 amended: peek_pending_actions leaves the aggregator unchanged and   *)
(* reports, as (symbol, position side, action), exactly the undrained     *)
(* buckets whose age does not exceed the aggregation window.              *)
C9_PeekReportsBucketsInWindow ==
    /\ [](harness.op = "peek_pending_actions" =>
            LET young(b) == now - b.timestamp <= aggregation_window
                visible == SelectSeq(pending_orders, young)
            IN  /\ Len(harness.result) = Len(visible)
                /\ \A i \in 1..Len(visible) :
                      harness.result[i] = ExpectedPeek(visible[i]))
    /\ [][harness'.op = "peek_pending_actions" =>
            pending_orders' = pending_orders]_vars

(* C9 witness: a peek reported a bucket while an older one, not yet       *)
(* drained, was left out                                                  *)
C9_Witness ==
    /\ harness.op = "peek_pending_actions"
    /\ harness.result # <<>>
    /\ Len(harness.result) < Len(pending_orders)

(* the corrective action a discrepancy of this type calls for *)
ImpliedAction(type) ==
    IF type = "missing_on_demo" THEN "OPEN"
    ELSE IF type = "extra_on_demo" THEN "CLOSE"
    ELSE "None"

IsPending(actions, symbol, side, action) ==
    \E i \in 1..Len(actions) :
        /\ actions[i].symbol = symbol
        /\ actions[i].side = side
        /\ actions[i].action = action

(* C6: the reconciler reports no discrepancy for a (symbol, side) whose   *)
(* implied action matches a bucket returned by peek_pending_actions, and  *)
(* no size mismatch while both an OPEN and a CLOSE bucket are pending for *)
(* that key.                                                              *)
C6_PendingDiscrepanciesDropped ==
    harness.op = "check_positions_sync" =>
        \A i \in 1..Len(harness.sync_state.discrepancies) :
            LET d == harness.sync_state.discrepancies[i]
            IN  /\ ~ IsPending(harness.pending_actions, d.symbol, d.side,
                               ImpliedAction(d.type))
                /\ d.type = "size_mismatch" =>
                      ~ (/\ IsPending(harness.pending_actions, d.symbol, d.side, "OPEN")
                         /\ IsPending(harness.pending_actions, d.symbol, d.side, "CLOSE"))

(* ------------------------- claims on main() --------------------------- *)
MapChanged(k) == (k \in state'.position_map) # (k \in state.position_map)

(* the step placed an order on the position k and the venue accepted it *)
AcceptedOrderFor(k) ==
    /\ last_order'.accepted
    /\ PositionKeyOf(last_order') = k
    /\ demo_positions'[k] # demo_positions[k]

(* C1 as stated: the position map changes for a (symbol, side) only in a  *)
(* step in which the venue accepted an order for that (symbol, side).     *)
C1_MapOnlyAfterAcceptedOrder ==
    [][\A k \in Keys : MapChanged(k) => AcceptedOrderFor(k)]_vars

(* the initial sync found the destination position of k within the        *)
(* tolerance of one quantity step of the expected size                    *)
InitialSyncInTolerance(k) ==
    /\ pc = "isync_correct"
    /\ isync.idx <= Len(KeySeq)
    /\ KeySeq[isync.idx] = k
    /\ isync.live[k] > 0
    /\ isync.demo[k] > 0
    /\ isync.demo[k] - ScaleDown(isync.live[k]) <= 1
    /\ ScaleDown(isync.live[k]) - isync.demo[k] <= 1

(* C1 amended: the position map changes for a (symbol, side) only in a    *)
(* step in which the venue accepted an order for it, or when the initial  *)
(* sync maps a source position that the destination already holds within  *)
(* the tolerance (no order is needed); a step in which the process fails  *)
(* without an accepted order leaves the map unchanged.                    *)
C1_MapAfterAcceptedOrderOrInSync ==
    [][ /\ \A k \in Keys :
              MapChanged(k) =>
                 \/ AcceptedOrderFor(k)
                 \/ InitialSyncInTolerance(k) /\ k \in state'.position_map
        /\ (pc' = "dead" /\ pc # "dead" /\ demo_positions' = demo_positions) =>
              /\ state'.position_map = state.position_map
              /\ file'.position_map = file.position_map
      ]_vars

(* C1 witness: an aggregated OPEN was accepted and its key is mapped *)
C1_Witness ==
    /\ pc \in {"exec", "sync"}
    /\ last_order.accepted
    /\ ~ last_order.reduceOnly
    /\ PositionKeyOf(last_order) \in state.position_map
    /\ inactive_cycles_counter = 0
    /\ activity_detected

(* between two cycles, nothing in flight, the cursor on the newest fill   *)
Settled ==
    /\ pc = "poll"
    /\ pending_orders = <<>>
    /\ ready_orders = <<>>
    /\ last_id_to_commit = None
    /\ state.last_processed_exec_id # None
    /\ state.last_processed_exec_id = Len(live_fills)

(* C2: whenever the system is settled and no order was refused and the    *)
(* process never died, a (symbol, side) is mapped exactly when the        *)
(* destination position of that key has quantity > 0.                     *)
C2_MappedIffDestinationOpen ==
    (Settled /\ exit_cause = "none") =>
        \A k \in Keys : (k \in state.position_map) <=> (demo_positions[k] > 0)

Cursor == file.last_processed_exec_id

(* C3 as stated: the persisted cursor is written only at the end of a     *)
(* main-loop cycle that ran to completion.                                *)
C3_CursorOnlyAtCycleEnd ==
    [][Cursor' # Cursor => (pc = "commit" /\ pc' = "poll")]_vars

(* C3 amended: after perform_initial_sync has installed the first cursor, *)
(* the persisted cursor is written only by the last step of a main-loop   *)
(* cycle, which is reached only through poll, drain, execution,           *)
(* reconciliation and reporting of the same cycle; main_event_loop never  *)
(* writes it, and a step in which the process dies leaves it unchanged.   *)
C3_CursorOnlyAtCycleEndOrInitialSync ==
    [][ /\ Cursor' # Cursor =>
              \/ pc = "commit" /\ pc' = "poll" /\ Cursor' = last_id_to_commit
              \/ pc = "isync_cursor"
        /\ pc = "poll" => Cursor' = Cursor
        /\ pc' = "dead" => Cursor' = Cursor
        /\ pc' = "commit" => pc \in {"commit", "report"}
        /\ pc' = "report" => pc \in {"report", "sync"}
        /\ pc' = "sync" => pc \in {"sync", "drain", "exec"}
        /\ pc' \in {"drain"} => pc \in {"drain", "poll"}
      ]_vars

(* C3 witness: a completed cycle has moved the cursor past the one the    *)
(* initial sync installed                                                 *)
C3_Witness ==
    /\ pc = "poll"
    /\ exit_cause = "none"
    /\ last_id_to_commit = None
    /\ activity_detected
    /\ Cursor = Len(live_fills)
    /\ Cursor >= 2

(* C4: an aggregated action that fails (no order accepted) does not end   *)
(* the program: the loop goes on with the next action or the next step.   *)
C4_FailedActionDoesNotAbort ==
    [][(pc = "exec" /\ demo_positions' = demo_positions) =>
           ~ (pc' = "dead" /\ exit_cause' = "fatal")]_vars

(* C5: when the process was killed after an order was accepted and before *)
(* the position map and the cursor were saved, then once the restarted    *)
(* process is settled the destination quantity of every (symbol, side)    *)
(* equals the scaled source quantity.                                     *)
C5_ConvergesAfterCrash ==
    (Settled /\ exit_cause = "killed") =>
        \A k \in Keys : demo_positions[k] = ScaleDown(live_positions[k])

UnseenFills(fills, last_known_id) ==
    {i \in 1..Len(fills) : i > last_known_id /\ i <= Len(fills) - PageLimit}

(* C11: when the cursor is not in the fetched page and fills newer than   *)
(* the cursor are older than the page, the poll does not treat the page   *)
(* as the complete set of new fills: it proposes no cursor that lies past *)
(* the fills it never saw.                                                *)
C11_GapIsNotSkipped ==
    (/\ harness.op = "main_event_loop"
     /\ harness.fetched
     /\ harness.last_known_id # None
     /\ UnseenFills(live_fills, harness.last_known_id) # {}) =>
        \A i \in UnseenFills(live_fills, harness.last_known_id) :
            ~ (harness.result.last_id_to_save # None
               /\ harness.result.last_id_to_save > i)

C13_MappedAfterOpenUntilClose ==
    [][ /\ (/\ pc = "exec"
            /\ pc' # "dead"
            /\ order_idx \in 1..Len(ready_orders)
            /\ ready_orders[order_idx].action = "OPEN"
            /\ ~ ready_orders[order_idx].is_increase
            /\ last_order'.accepted
            /\ demo_positions' # demo_positions) =>
               LET k == <<ready_orders[order_idx].symbol, ready_orders[order_idx].side>>
               IN  /\ is_position_mapped(state', k[1], k[2])
                   /\ k \in file'.position_map
        /\ \A k \in Keys :
              (is_position_mapped(state, k[1], k[2])
               /\ ~ is_position_mapped(state', k[1], k[2])) =>
                  /\ last_order'.accepted
                  /\ last_order'.reduceOnly
                  /\ PositionKeyOf(last_order') = k
                  /\ demo_positions'[k] < demo_positions[k]
      ]_vars

(* C13 witness: the first action of a batch was an OPEN without           *)
(* is_increase, its order was accepted and its key is mapped while the    *)
(* batch goes on                                                          *)
C13_Witness ==
    /\ pc = "exec"
    /\ order_idx = 2
    /\ ready_orders[1].action = "OPEN"
    /\ ~ ready_orders[1].is_increase
    /\ last_order.accepted
    /\ ~ last_order.reduceOnly
    /\ last_order.side = ready_orders[1].side
    /\ is_position_mapped(state, ready_orders[1].symbol, ready_orders[1].side)

(* ------------------- claims on a failed fetch ------------------------- *)
(* the current cycle's poll did not get its page of executions *)
FetchFailed(h) == h.op = "main_event_loop" /\ ~ h.fetched

(* C14: a poll whose request for the source fills failed reports no       *)
(* activity, proposes no cursor and adds nothing to the aggregator; in    *)
(* the rest of that cycle neither the persisted cursor nor the position   *)
(* map changes, and the aggregator is left as it was.                     *)
C14_FailedFetchChangesNothing ==
    [][ /\ (pc = "poll" /\ pc' = "drain" /\ FetchFailed(harness')) =>
              /\ pending_orders' = pending_orders
              /\ ~ activity_detected'
              /\ new_last_id' = None
              /\ last_id_to_commit' = last_id_to_commit
              /\ state' = state
              /\ file' = file
        /\ (pc \in {"drain", "exec", "sync", "report", "commit"}
            /\ FetchFailed(harness)) =>
              /\ Cursor' = Cursor
              /\ file'.position_map = file.position_map
              /\ state' = state
              /\ pending_orders' = pending_orders
              /\ demo_positions' = demo_positions
      ]_vars

(* C14 witness: the source has fills newer than the cursor, the fetch of  *)
(* this cycle failed and the cycle has reached its end with the cursor    *)
(* and the map it started with                                            *)
C14_Witness ==
    /\ pc = "commit"
    /\ FetchFailed(harness)
    /\ state.last_processed_exec_id # None
    /\ Len(live_fills) > state.last_processed_exec_id
    /\ live_fills[Len(live_fills)].execType = "Trade"
    /\ state.position_map # {}
    /\ last_id_to_commit = None
    /\ pending_orders = <<>>

(* ------------------- claims on the StateManager ----------------------- *)
(* C15: when the process stops inside a save, the file on disk is either  *)
(* the complete file from before the call or the complete new one, and a  *)
(* StateManager created afterwards holds the state before the call or the *)
(* state the call was to leave.                                           *)
C15_SaveIsAtomic ==
    harness.crashed =>
        /\ file \in {harness.file_before, save(harness.after)}
        /\ harness.op = "reload" => state \in {harness.before, harness.after}

C17_MapAndUnmapIdempotent ==
    pc = "unit" =>
        \A k \in Keys :
            LET m1 == map_position(state, file, k[1], k[2])
                m2 == map_position(m1[1], m1[2], k[1], k[2])
                r1 == remove_mapping(state, file, k[1], k[2])
                r2 == remove_mapping(r1[1], r1[2], k[1], k[2])
            IN  /\ m2 = m1
                /\ r2 = r1
                /\ is_position_mapped(m1[1], k[1], k[2])
                /\ ~ is_position_mapped(r1[1], k[1], k[2])
                /\ ~ is_position_mapped(state, k[1], k[2]) => r1 = <<state, file>>
                /\ m1[1].last_processed_exec_id = state.last_processed_exec_id
                /\ r1[1].last_processed_exec_id = state.last_processed_exec_id
                /\ \A j \in Keys \ {k} :
                      /\ is_position_mapped(m1[1], j[1], j[2])
                            <=> is_position_mapped(state, j[1], j[2])
                      /\ is_position_mapped(r1[1], j[1], j[2])
                            <=> is_position_mapped(state, j[1], j[2])

(* C17 witness: map_position was called for a key that was mapped already *)
(* while the other key is mapped and a cursor is set                      *)
C17_Witness ==
    /\ pc = "unit"
    /\ harness.op = "map_position"
    /\ harness.key \in harness.before.position_map
    /\ state = harness.before
    /\ file = harness.file_before
    /\ state.position_map = Keys
    /\ state.last_processed_exec_id # None

(* ------------------- claims on the reconciler ------------------------- *)
(* the discrepancies of the given type recorded for (symbol, side) k *)
Found(ds, k, type) ==
    {i \in 1..Len(ds) : ds[i].symbol = k[1] /\ ds[i].side = k[2] /\ ds[i].type = type}

Abs(x) == IF x < 0 THEN 0 - x ELSE x

(* the classification of the snapshots, mism being the keys whose         *)
(* destination quantity is out of tolerance                               *)
Classified(ds, live, demo, mism) ==
    \A k \in Keys :
        /\ Cardinality(Found(ds, k, "missing_on_demo") \cup Found(ds, k, "extra_on_demo")
                       \cup Found(ds, k, "size_mismatch")) <= 1
        /\ Found(ds, k, "missing_on_demo") # {} <=> (live[k] > 0 /\ demo[k] = 0)
        /\ Found(ds, k, "extra_on_demo") # {} <=> (live[k] = 0 /\ demo[k] > 0)
        /\ Found(ds, k, "size_mismatch") # {} <=>
              (live[k] > 0 /\ demo[k] > 0 /\ k \in mism)

(* C18 as stated: a pass of check_positions_sync records at most one      *)
(* discrepancy per (symbol, side), missing, extra or size mismatch, the   *)
(* last exactly when the destination quantity differs from source         *)
(* quantity x multiplier by more than one quantity step.                  *)
C18_ClassifiesAgainstExactProduct ==
    (harness.op = "check_positions_sync" /\ harness.computed) =>
        LET mism == {k \in Keys :
                Abs(demo_positions[k] * MultDen - live_positions[k] * MultNum) > MultDen}
        IN  Classified(harness.sync_state.discrepancies, live_positions,
                       demo_positions, mism)

(* C18 amended: the same, with the size mismatch recorded exactly when    *)
(* the destination quantity differs by more than one quantity step from   *)
(* source quantity x multiplier rounded half-even to the quantity         *)
(* precision.                                                             *)
C18_ClassifiesAgainstRoundedProduct ==
    (harness.op = "check_positions_sync" /\ harness.computed) =>
        LET mism == {k \in Keys :
                Abs(demo_positions[k] - ScaleHalfEven(live_positions[k])) > 1}
        IN  Classified(harness.sync_state.discrepancies, live_positions,
                       demo_positions, mism)

(* C18 witness: a pass recorded a size mismatch for one key and nothing   *)
(* for the other key, which is open on both accounts within the tolerance *)
C18_Witness ==
    /\ harness.op = "check_positions_sync"
    /\ harness.computed
    /\ Len(harness.sync_state.discrepancies) = 1
    /\ harness.sync_state.discrepancies[1].type = "size_mismatch"
    /\ \A k \in Keys : live_positions[k] > 0 /\ demo_positions[k] > 0
    /\ \E k \in Keys : demo_positions[k] # ScaleHalfEven(live_positions[k])
                       /\ Found(harness.sync_state.discrepancies, k, "size_mismatch") = {}

(* the step heals the discrepancy d of (symbol, side) k *)
HealsNow(i) ==
    /\ harness.sync_state.pending_action = "FULL_SYNC"
    /\ harness'.op = "execute_pending_sync_actions"
    /\ harness.idx = i - 1
    /\ harness'.idx = i

C20_ExtraUnmappedAfterAcceptedClose ==
    [][ /\ \A i \in 1..Len(harness.sync_state.discrepancies) :
              (HealsNow(i) /\ harness.sync_state.discrepancies[i].type = "extra_on_demo") =>
                 LET d == harness.sync_state.discrepancies[i]
                 IN  /\ last_order'.reduceOnly
                     /\ last_order'.qty = demo_positions[<<d.symbol, d.side>>]
                     /\ last_order'.accepted =>
                           ~ is_position_mapped(state', d.symbol, d.side)
                     /\ ~ last_order'.accepted =>
                           (is_position_mapped(state', d.symbol, d.side)
                               <=> is_position_mapped(state, d.symbol, d.side))
        /\ (\A i \in 1..Len(harness.sync_state.discrepancies) : ~ HealsNow(i)) =>
              state'.position_map = state.position_map
      ]_vars

(* C21: after any reconciliation pass, one that found discrepancies       *)
(* included, the next scheduled check_positions_sync computes the          *)
(* discrepancies again: a call for which both snapshots were available     *)
(* compared them.                                                          *)
C21_NextCheckComputesAgain ==
    (harness.op = "check_positions_sync" /\ harness.fetched)
        => harness.computed

(* C22: check_positions_sync is invoked only in a cycle without new fills *)
(* and without an executed batch, after at least                           *)
(* MIN_INACTIVE_CYCLES_FOR_SYNC consecutive such cycles and never during a *)
(* drain; a detected fill, an executed batch and each reconciliation reset *)
(* the idle-cycle counter to 0, after which the cycle goes on.             *)
C22_SyncOnlyWhenIdleAndCounterReset ==
    [][/\ (pc = "poll" /\ pc' = "drain") =>
              inactive_cycles_counter' =
                 IF activity_detected' THEN 0 ELSE inactive_cycles_counter + 1
       /\ (pc = "exec" /\ pc' = "sync") => inactive_cycles_counter' = 0
       /\ (pc = "sync" /\ inactive_cycles_counter >= MIN_INACTIVE_CYCLES_FOR_SYNC) =>
              /\ ~ activity_detected
              /\ ready_orders = <<>>
              /\ order_idx = 0
       /\ (pc = "sync" /\ pc' # "sync" /\ exit_cause' # "crash") =>
              /\ pc' = "report"
              /\ inactive_cycles_counter' =
                    IF inactive_cycles_counter >= MIN_INACTIVE_CYCLES_FOR_SYNC
                    THEN 0 ELSE inactive_cycles_counter]_vars

(* the tick-quantized stop of one tier, stated without the rounding      *)
(* operators: the tick at or below entry - tier/size for Buy, at or above *)
(* entry + tier/size for Sell; 0 stands for a candidate that is not       *)
(* positive                                                               *)
ExpectedStop(position, tier) ==
    LET n == position.avgPrice * position.size
        sz == position.size
    IN  IF position.side = "Buy"
        THEN IF n - tier < sz THEN 0
             ELSE CHOOSE q \in 1..MaxEntry :
                     q * sz <= n - tier /\ n - tier < (q + 1) * sz
        ELSE CHOOSE q \in 1..(MaxEntry + MaxTier + 1) :
                (q - 1) * sz < n + tier /\ n + tier <= q * sz

(* the call went past the early returns of lines 65-77 *)
SlEntered(h) ==
    /\ h.op = "check_and_set_sl"
    /\ h.tiers # <<>>
    /\ ~ current_sl_adequate(h.position, h.tiers)
    /\ h.info

(* the tiers whose candidate is positive and is not the stop already set *)
UsableTiers(h) ==
    {i \in 1..Len(h.tiers) :
        /\ ExpectedStop(h.position, h.tiers[i]) > 0
        /\ ExpectedStop(h.position, h.tiers[i]) # h.position.stopLoss}

SlEventOf(h, i) ==
    <<[symbol |-> h.position.symbol, side |-> h.position.side,
       pnl_value |-> h.tiers[i]]>>

(* C23 as stated: when the candidate of the smaller tier of the list is   *)
(* not positive, check_and_set_sl skips to the larger tier and that       *)
(* tier's price is the one set.                                           *)
C23_SkipsToLargerTier ==
    (/\ SlEntered(harness)
     /\ Len(harness.tiers) = 2
     /\ harness.tiers[1] > harness.tiers[2]
     /\ ExpectedStop(harness.position, harness.tiers[2]) = 0
     /\ \A i \in 1..2 : harness.replies[i] = "ok")
        => /\ harness.result.event = SlEventOf(harness, 1)
           /\ harness.result.stopLoss > 0

(* C23, amended: the tiers are tried in the configured (descending)       *)
(* order; a tier whose candidate is not positive, or is the stop already  *)
(* set, is skipped, and the first remaining candidate is the one sent to  *)
(* the venue and, when the venue accepts it, the one set.                 *)
C23_UsesFirstUsableTier ==
    SlEntered(harness) =>
        IF UsableTiers(harness) = {}
        THEN /\ harness.result.attempts = <<>>
             /\ harness.result.event = <<>>
        ELSE LET i == CHOOSE j \in UsableTiers(harness) :
                         \A l \in UsableTiers(harness) : j <= l
                 stop == ExpectedStop(harness.position, harness.tiers[i])
             IN  /\ harness.result.attempts # <<>>
                 /\ harness.result.attempts[1] =
                       [tier |-> harness.tiers[i], stopLoss |-> stop]
                 /\ harness.replies[i] = "ok" =>
                       /\ harness.result.event = SlEventOf(harness, i)
                       /\ harness.result.stopLoss = stop

C23_Witness ==
    /\ SlEntered(harness)
    /\ Len(harness.tiers) = 2
    /\ ExpectedStop(harness.position, harness.tiers[1]) = 0
    /\ ExpectedStop(harness.position, harness.tiers[2]) > 0
    /\ harness.result.event = SlEventOf(harness, 2)

(* C24: when the venue rejects a stop price as too close, the next tier   *)
(* of the list is tried within the same invocation; any other rejection   *)
(* ends the invocation, and no invocation sets more than one stop.        *)
C24_TooCloseTriesNextTier ==
    (SlEntered(harness) /\ UsableTiers(harness) = {1, 2}) =>
        /\ harness.replies[1] = "too_close" =>
              /\ Len(harness.result.attempts) = 2
              /\ harness.result.attempts[2].tier = harness.tiers[2]
              /\ harness.replies[2] = "ok" =>
                    harness.result.event = SlEventOf(harness, 2)
        /\ harness.replies[1] \in {"rejected", "not_modified"} =>
              /\ Len(harness.result.attempts) = 1
              /\ harness.result.event = <<>>
        /\ harness.replies[1] = "ok" => Len(harness.result.attempts) = 1

(* an open position for which no tier has a positive candidate *)
SlExhausted(h) ==
    /\ SlEntered(h)
    /\ \A i \in 1..Len(h.tiers) : ExpectedStop(h.position, h.tiers[i]) = 0

(* C25: when no tier yields a positive stop price the cycle carries a     *)
(* warning or an event for it, so that the outcome differs from that of   *)
(* a call that found the existing stop adequate.                          *)
C25_ExhaustionIsSurfaced ==
    SlExhausted(harness) =>
        \/ harness.result.logged
        \/ harness.cycle_events # <<>>

(* a call with two different tiers whose candidates are both positive *)
TwoPositiveCandidates(h) ==
    /\ h.op = "check_and_set_sl"
    /\ Len(h.tiers) = 2
    /\ h.tiers[1] > h.tiers[2]
    /\ h.candidates[1] > 0
    /\ h.candidates[2] > 0
    /\ h.sl_prices[1] > 0
    /\ h.sl_prices[2] > 0

(* C26 as stated: the larger tier's quantized stop is strictly farther    *)
(* from the entry price than the smaller tier's, whenever both            *)
(* candidates are positive.                                               *)
C26_LargerTierStrictlyFarther ==
    TwoPositiveCandidates(harness) =>
        IF harness.position.side = "Buy"
        THEN harness.candidates[1] < harness.candidates[2]
        ELSE harness.candidates[1] > harness.candidates[2]

(* C26, amended: the larger tier's quantized stop is never closer to the  *)
(* entry price than the smaller tier's, and it is strictly farther when   *)
(* the two tiers differ by at least one tick of price per unit of size.   *)
C26_LargerTierNotCloser ==
    TwoPositiveCandidates(harness) =>
        LET apart == harness.tiers[1] - harness.tiers[2] >= harness.position.size
        IN  IF harness.position.side = "Buy"
            THEN /\ harness.candidates[1] <= harness.candidates[2]
                 /\ harness.candidates[2] <= harness.position.avgPrice
                 /\ harness.sl_prices[1] <= harness.sl_prices[2]
                 /\ apart => /\ harness.candidates[1] < harness.candidates[2]
                             /\ harness.sl_prices[1] < harness.sl_prices[2]
            ELSE /\ harness.candidates[1] >= harness.candidates[2]
                 /\ harness.candidates[2] >= harness.position.avgPrice
                 /\ harness.sl_prices[1] >= harness.sl_prices[2]
                 /\ apart => /\ harness.candidates[1] > harness.candidates[2]
                             /\ harness.sl_prices[1] > harness.sl_prices[2]

C26_Witness ==
    /\ TwoPositiveCandidates(harness)
    /\ harness.position.side = "Buy"
    /\ harness.position.size = 2
    /\ harness.tiers[1] - harness.tiers[2] = 1
    /\ harness.candidates[1] = harness.candidates[2]

(* the aggregated action of the latest iteration of ExecStep *)
LatestOrder ==
    ready_orders[IF harness.raised THEN order_idx ELSE order_idx - 1]

ExecActed(action) ==
    /\ harness.op \in {"OPEN", "CLOSE", "raised"}
    /\ LatestOrder.action = action

OrderCalls(calls) ==
    {i \in 1..Len(calls) : calls[i].endpoint = "/v5/order/create"}

(* C27: for an OPEN that is not an increase the leverage request is sent  *)
(* before the order, for an increase no leverage request is sent, and the *)
(* order is a market order that is not reduce-only, on the action's side, *)
(* for the aggregated quantity.                                           *)
C27_LeverageBeforeOpen ==
    ExecActed("OPEN") =>
        LET o == LatestOrder
            calls == harness.calls
        IN  /\ calls # <<>>
            /\ ~ o.is_increase => calls[1] = LeverageCall(o.symbol)
            /\ o.is_increase =>
                  \A i \in 1..Len(calls) : calls[i] # LeverageCall(o.symbol)
            /\ \A i \in OrderCalls(calls) :
                  /\ i = Len(calls)
                  /\ calls[i].symbol = o.symbol
                  /\ calls[i].side = o.side
                  /\ calls[i].qty = o.qty
                  /\ ~ calls[i].reduceOnly

(* C28: the order placed for an aggregated CLOSE is the only request of   *)
(* its iteration, is reduce-only, on the side opposite to the position,   *)
(* for the aggregated quantity, with the position index of the position's *)
(* side (0 in one-way mode, 1 for Buy and 2 for Sell in hedge mode); it   *)
(* increases no destination position and, when accepted, reduces the      *)
(* position it names.                                                     *)
C28_CloseOrdersOnlyReduce ==
    [][ExecActed("CLOSE")' =>
          LET o == LatestOrder'
              calls == harness'.calls
              k == <<o.symbol, o.position_side_for_close>>
          IN  /\ Len(calls) = 1
              /\ calls[1].endpoint = "/v5/order/create"
              /\ calls[1].reduceOnly
              /\ calls[1].symbol = o.symbol
              /\ calls[1].side = Opposite(o.position_side_for_close)
              /\ calls[1].qty = o.qty
              /\ calls[1].positionIdx =
                    (IF harness.demo_mode = "Oneway" THEN 0
                     ELSE IF o.position_side_for_close = "Buy" THEN 1 ELSE 2)
              /\ \A kk \in Keys : demo_positions'[kk] <= demo_positions[kk]
              /\ last_order'.accepted =>
                    demo_positions'[k] =
                       demo_positions[k] - Min(o.qty, demo_positions[k])]_vars

C28_Witness ==
    /\ ExecActed("CLOSE")
    /\ harness.op = "CLOSE"
    /\ harness.demo_mode = "Hedge"
    /\ LatestOrder.position_side_for_close = "Sell"
    /\ harness.calls[1].positionIdx = 2
    /\ last_order.accepted
    /\ \E k \in Keys : demo_positions[k] > 0

(* C29: the event list receives exactly one open or close event for each *)
(* accepted state-changing destination order and none for a failed one;   *)
(* here for the orders of the initial sync, whose events are collected in *)
(* isync.cycle_events while isync.accepted counts the accepted orders.    *)
C29_OneEventPerAcceptedOrder ==
    Len(isync.cycle_events) = isync.accepted

(* quantity x multiplier rounded down, stated without the division: the *)
(* largest d with d <= q x multiplier                                     *)
RoundedDownProduct(q) ==
    CHOOSE dq \in 0..(q * MultNum) :
        /\ dq * MultDen <= q * MultNum
        /\ q * MultNum < (dq + 1) * MultDen

(* what one source fill adds to the bucket of key k when the store is st *)
ReplicatedQty(fill, st, k) ==
    IF fill.execType # "Trade" \/ fill.symbol # k[1] \/ fill.side # k[2] THEN 0
    ELSE IF fill.closedSize > 0
    THEN IF k[3] = "CLOSE"
            /\ is_position_mapped(st, fill.symbol, Opposite(fill.side))
         THEN RoundedDownProduct(fill.closedSize) ELSE 0
    ELSE IF k[3] = "OPEN" THEN RoundedDownProduct(fill.execQty) ELSE 0

RECURSIVE ReplicatedTotal(_, _, _)
ReplicatedTotal(fills, st, k) ==
    IF fills = <<>> THEN 0
    ELSE ReplicatedQty(Head(fills), st, k) + ReplicatedTotal(Tail(fills), st, k)

(* C30: every quantity the poll hands to the aggregator is the source     *)
(* fill's quantity x multiplier rounded down to the quantity precision,   *)
(* and a fill whose scaled quantity is 0 adds nothing: no bucket exists   *)
(* without a positive replicated quantity.                                *)
C30_ReplicatedQtyRoundedDown ==
    harness.op = "main_event_loop" =>
        \A k \in AggKeys :
           LET expected == ReplicatedTotal(harness.result.processed, state, k)
               po == harness.result.pending_orders
           IN  /\ Totals(po)[k] = expected
               /\ KeyIndex(po, k) # 0 <=> expected > 0

C30_Witness ==
    /\ harness.op = "main_event_loop"
    /\ Len(harness.result.processed) = 2
    /\ harness.result.processed[1].execType = "Trade"
    /\ harness.result.processed[1].execQty = 1
    /\ harness.result.processed[2].execQty = 3
    /\ Len(harness.result.pending_orders) = 1
    /\ harness.result.pending_orders[1].total_qty = 1

(* C31: a shutdown request stops the process only between loop iterations *)
(* or after a venue call's outcome was recorded: every step of the order  *)
(* execution in which the destination accepted an order (its positions    *)
(* changed) also records the outcome in the position map, in memory and   *)
(* in the state file.                                                     *)
C31_AcceptedOrderIsRecorded ==
    [][(pc = "exec" /\ demo_positions' # demo_positions) =>
          LET after == StateAfterOrder(state, file, ready_orders[order_idx])
          IN  state' = after[1] /\ file' = after[2]]_vars


C33_AddFillKeepsFirstFillData ==
    [][/\ harness'.op = "add_fill" =>
            /\ Len(pending_orders') \in {Len(pending_orders), Len(pending_orders) + 1}
            /\ \A i \in 1..Len(pending_orders) :
                  pending_orders'[i] =
                      [pending_orders[i] EXCEPT
                          !.total_qty = pending_orders'[i].total_qty]
            /\ \A i \in (Len(pending_orders) + 1)..Len(pending_orders') :
                  pending_orders'[i].timestamp = now
       /\ harness'.op = "get_ready_orders" =>
            \A i \in 1..Len(pending_orders') :
                now' - pending_orders'[i].timestamp <= aggregation_window]_vars

(* a second fill joined, later than the first, a bucket that still waits *)
C33_Witness ==
    /\ harness.op = "add_fill"
    /\ \E i \in 1..Len(pending_orders) :
          /\ Len(harness.log[pending_orders[i].key]) >= 2
          /\ pending_orders[i].timestamp < now
          /\ pending_orders[i].total_qty > MaxFillQty


(* C34: make_api_request returns a response only when the HTTP call      *)
(* succeeded and the retCode of the response is 0; HTTP 401 raises        *)
(* APIAuthenticationError, HTTP 429 raises APIRateLimitError, every       *)
(* non-zero retCode and every transport failure raises APIException or a  *)
(* subclass, and no response with a non-zero retCode is returned.         *)
C34_MakeApiRequestContract ==
    harness.op = "make_api_request" =>
        LET r == harness.reply
            o == harness.outcome
        IN  /\ o.returned <=> (/\ r.failure = "none" /\ r.status_code = 200
                               /\ r.json = "ok" /\ r.retCode = 0)
            /\ o.returned => o.retCode = 0 /\ o.raised = "none"
            /\ ~ o.returned => o.raised \in APIExceptions
            /\ (r.failure = "none" /\ r.status_code = 401) =>
                   o.raised = "APIAuthenticationError"
            /\ (r.failure = "none" /\ r.status_code = 429) =>
                   o.raised = "APIRateLimitError"


C36_BatchEqualsSequential ==
    (/\ harness.op = "process_aggregated_orders"
     /\ ~ harness.raised /\ ~ harness.seq_raised)
        => demo_positions = harness.sequential


(* C38: whenever the cursor has just been persisted, no fill is left in  *)
(* the aggregator's memory: every fill up to the cursor was drained and   *)
(* submitted before, whatever aggregation window and loop interval are    *)
(* configured.                                                            *)
C38_CursorCoversOnlyDrainedFills ==
    harness.op = "set_last_id" => pending_orders = <<>>


(* C37: a poll hands every source Trade fill that is newer than the      *)
(* cursor to the aggregator exactly once: none of the fills between the   *)
(* old cursor and the new cursor candidate is left out, none is handed    *)
(* over twice.                                                            *)
C37_EveryNewFillPolledOnce ==
    (/\ harness.op = "main_event_loop"
     /\ harness.fetched
     /\ harness.last_known_id # None) =>
        \A i \in 1..Len(live_fills) :
            (i > harness.last_known_id /\ live_fills[i].execType = "Trade") =>
                Cardinality({j \in 1..Len(harness.result.processed) :
                                harness.result.processed[j].execId = i}) = 1


(* C39: the cursor that the initial sync installs covers no fill that    *)
(* the position snapshot of the initial sync does not reflect: when the   *)
(* cursor is installed the source positions are those of the snapshot, so *)
(* that every later fill lies after the cursor and is emitted by a poll.  *)
C39_InitialCursorCoversOnlySnapshot ==
    [][(/\ pc = "isync_cursor"
        /\ state'.last_processed_exec_id # state.last_processed_exec_id) =>
          isync.live = live_positions]_vars


(* C40: the manager restarts a user process that died at most            *)
(* max_restart_attempts (3) times; after that many restarts a further     *)
(* death marks the process failed and it is not started again.            *)
C40_AtMostMaxRestarts ==
    \A n \in Nicknames :
        /\ harness.restarts[n] <= max_restart_attempts
        /\ harness.process_status[n] = "failed" =>
               harness.processes[n] = "none"


====
